---- MODULE Spec2Model ----
(***************************************************************************)
(* A model of GameTool's event/scheduler core (gametool/event.py) and of   *)
(* the command registry of its command parser (gametool/cmd_parser.py).    *)
(*                                                                         *)
(* Time is counted in ticks of 0.025 s, so the scheduler's minimum         *)
(* re-schedule distance of 0.05 s is Step = 2 ticks.  Callables are        *)
(* arbitrary host code: each invocation is a frame on the call stack that  *)
(* may call back into the manager's public operations before it returns a  *)
(* value or raises.                                                        *)
(***************************************************************************)
EXTENDS Integers, Sequences, FiniteSets, TLC

VARIABLES
    acts,               \* EventManager.acts
    event_listeners,    \* EventManager.event_listeners: event -> list of <<fn, persist>>
    scheduled_times,    \* EventManager.scheduled_times: the min-heap of pending timestamps
    scheduled_tasks,    \* EventManager.scheduled_tasks: timestamp -> list of callables
    stack,              \* the control stack of the call in progress (top = last)
    ev,                 \* the last observable event of the manager (history)
    credit,             \* per one-shot monitor: subscribe calls minus invocations (history)
    commands,           \* CommandParser.commands (the registered names)
    aliases,            \* CommandParser.aliases: alias -> target
    outcome,            \* how the last registry operation ended: "ok" or the error raised
    info,               \* CommandParser.commands: registered name -> processed command record
    op,                 \* the last registry operation and its arguments (history)
    res,                \* what the last parse call did (history)
    line,               \* the words of the input line the host is composing
    id,                 \* IDPool.id: the next fresh ID
    free_ids,           \* IDPool.free_ids
    objects,            \* IDPool.objects: ID -> object
    issued,             \* the IDs get_id returned that were not released since (history)
    pool,               \* the last IDPool call and how it ended (history)
    heap,               \* the host's objects: the root of PathResolver and what it refers to
    pr                  \* the last PathResolver call and how it ended (history)

managerVars == <<acts, event_listeners, scheduled_times, scheduled_tasks, stack, ev, credit>>
parserVars == <<commands, aliases, outcome, info, op, res, line>>
poolVars == <<id, free_ids, objects, issued, pool>>
pathVars == <<heap, pr>>
\* what a step of the parser leaves alone, and what a step of the manager does
emVars == <<managerVars, poolVars, pathVars>>
regVars == <<parserVars, poolVars, pathVars>>
vars == <<acts, event_listeners, scheduled_times, scheduled_tasks, stack, ev, credit,
          commands, aliases, outcome, info, op, res, line,
          id, free_ids, objects, issued, pool, heap, pr>>

-----------------------------------------------------------------------------
(* Bounds of the model *)

\* host timestamps and current times range over 0..MaxTime ticks
MaxTime == 2
\* at most MaxReg callables are registered over the three registries
MaxReg == 2
\* at most MaxNest trigger_event calls are active at once
MaxNest == 2

\* 0.05 s, the minimum distance of a re-schedule, in ticks of 0.025 s
Step == 2

Fns == {"f", "g"}
Events == {"x"}
Times == 0 .. MaxTime
\* what a task may return: 0 is falsy, every other number is truthy
RetVals == -1 .. MaxTime

-----------------------------------------------------------------------------
(* Sequence helpers *)

Last(s) == s[Len(s)]
Front(s) == SubSeq(s, 1, Len(s) - 1)
Range(s) == {s[i] : i \in 1 .. Len(s)}
IsPrefix(s, t) == Len(s) <= Len(t) /\ SubSeq(t, 1, Len(s)) = s

\* number of positions of s holding x
Count(s, x) == Cardinality({i \in 1 .. Len(s) : s[i] = x})

\* list.remove(x): drops the first element equal to x
RemoveFirst(s, x) ==
    LET i == CHOOSE j \in 1 .. Len(s) : s[j] = x /\ \A k \in 1 .. j - 1 : s[k] # x
    IN  SubSeq(s, 1, i - 1) \o SubSeq(s, i + 1, Len(s))

\* a push that does not restore the heap order (list.append for heappush)
HeapPushAppend(h, t) == Append(h, t)

\* heapq.heappush on the pending timestamps, kept in ascending order
HeapPush(h, t) ==
    LET n == Cardinality({i \in 1 .. Len(h) : h[i] <= t})
    IN  SubSeq(h, 1, n) \o <<t>> \o SubSeq(h, n + 1, Len(h))

\* heapq.heappop: the smallest entry leaves the heap
HeapPop(h) == Tail(h)

-----------------------------------------------------------------------------
(* The call stack.  A frame is one activation: run_cycle ("cycle"),        *)
(* trigger_event ("trigger") or a callable the manager invoked ("cb").     *)
(* start, log, added, nested and asched are history fields: they record    *)
(* what the call saw and did and never influence a step.                   *)

NoFrame ==
    [k |-> "none", T |-> 0, phase |-> "", i |-> 0, kept |-> <<>>, ts |-> -1,
     tasks |-> <<>>, e |-> "", snap |-> <<>>, role |-> "", fn |-> "", mon |-> <<>>,
     did |-> FALSE, start |-> <<>>, log |-> <<>>, added |-> <<>>, nested |-> FALSE,
     asched |-> FALSE, arg |-> -1]

\* run_cycle(current_time) entered: the comprehension starts at the first action
CycleFrame(T) ==
    [NoFrame EXCEPT !.k = "cycle", !.T = T, !.phase = "a", !.i = 1, !.start = acts]

\* trigger_event(event_name) entered: the loop runs over a copy of the list
TriggerFrame(e) ==
    [NoFrame EXCEPT !.k = "trigger", !.e = e, !.i = 1,
                    !.snap = event_listeners[e], !.start = event_listeners[e]]

\* a callable invoked by the manager
CbFrame(role, fn) == [NoFrame EXCEPT !.k = "cb", !.role = role, !.fn = fn]

Idle == stack = <<>>
Top == stack[Len(stack)]
Caller == stack[Len(stack) - 1]
InCb == ~Idle /\ Top.k = "cb"

\* a running callable calls back into the manager at most once
CanCall == InCb /\ ~Top.did
Called(s) == [s EXCEPT ![Len(s)] = [@ EXCEPT !.did = TRUE]]
NestDepth == Cardinality({j \in 1 .. Len(stack) : stack[j].k = "trigger"})

\* ret: the value returned; for a raise the number of callables still to run
\* in the caller's loop; for the return of run_cycle its current_time
Ev(kind, role, fn, t, ret) == [kind |-> kind, role |-> role, ret |-> ret]

\* iterating the live list instead of a copy
MonitorsLive(fr) == event_listeners[fr.e]

\* the monitors trigger_event iterates: the copy taken when the call started
Monitors(fr) == fr.snap

\* the tasks of the popped bucket not yet returned, over all frames
InFlight(fn) ==
    IF stack # <<>> /\ stack[1].k = "cycle"
    THEN Count(SubSeq(stack[1].tasks, stack[1].i, Len(stack[1].tasks)), fn)
    ELSE 0

\* the instances of fn waiting in the buckets
Queued(fn) ==
    LET RECURSIVE Sum(_)
        Sum(K) == IF K = {} THEN 0
                  ELSE LET k == CHOOSE x \in K : TRUE
                       IN  Count(scheduled_tasks[k], fn) + Sum(K \ {k})
    IN  Sum(DOMAIN scheduled_tasks)

Pending(fn) == Queued(fn) + InFlight(fn)

\* the number of registered callables, the popped bucket included
Size ==
    LET RECURSIVE SumL(_)
        SumL(E) == IF E = {} THEN 0
                   ELSE LET e == CHOOSE x \in E : TRUE
                        IN  Len(event_listeners[e]) + SumL(E \ {e})
        RECURSIVE SumF(_)
        SumF(F) == IF F = {} THEN 0
                   ELSE LET f == CHOOSE x \in F : TRUE
                        IN  Pending(f) + SumF(F \ {f})
    IN  Len(acts) + SumL(Events) + SumF(Fns)

-----------------------------------------------------------------------------
(* The command registry: the names a fresh CommandParser holds *)

Builtins == {"help", "raw", "alias", "unalias"}
DefaultAliases ==
    [a \in {"?", "h", "r", "a", "ua"} |->
        CASE a \in {"?", "h"} -> "help"
          [] a = "r" -> "raw"
          [] a = "a" -> "alias"
          [] a = "ua" -> "unalias"]

\* the names the host passes to the registry operations
Names == {"help", "h", "go", "run"}

\* ' '.join(parts)
RECURSIVE JoinSp(_)
JoinSp(parts) ==
    IF parts = <<>> THEN ""
    ELSE IF Len(parts) = 1 THEN parts[1]
    ELSE parts[1] \o " " \o JoinSp(Tail(parts))

\* a raw CommandInfo: keys is the set of optional keys the dictionary has; a
\* raw parameter has hasDefault ('default' in param_info) and kw, the
\* 'keyword_only' entry: "unset" when the key is absent
RawParam(name, type, hasDefault, default, kw) ==
    [name |-> name, type |-> type, hasDefault |-> hasDefault, default |-> default, kw |-> kw,
     help |-> ""]
RawInfo(func, keys, params, help) ==
    [func |-> func, keys |-> keys, params |-> params, help |-> help,
     accepts_args |-> "", accepts_kwargs |-> "", return_info |-> ""]
\* the parameter with a 'help' entry
Helped(rp, text) == [rp EXCEPT !.help = text]

\* one entry of processed_params
ProcessParam(rp) ==
    [name |-> rp.name,
     type |-> rp.type,
     default |-> IF rp.hasDefault THEN rp.default ELSE "None",
     optional |-> rp.hasDefault,
     keyword_only |-> IF rp.kw = "unset" THEN rp.hasDefault ELSE rp.kw = "yes"]

\* the parameter part of short_help: "[name]" or "[name?]"
ParamTag(pp) == "[" \o pp.name \o (IF pp.optional THEN "?" ELSE "") \o "]"

\* the lines of full_help one parameter contributes
ParamLines(pp) ==
    << "  " \o pp.name \o ": " \o pp.type \o
          (IF pp.optional THEN " (optional)" ELSE " (required)"),
       "    default: " \o (IF pp.optional THEN pp.default ELSE "none") >>

\* the lines of full_help for the parameters: those of ParamLines, and the
\* parameter's own help text when the raw parameter has one
RECURSIVE HelpLines(_, _)
HelpLines(pps, rps) ==
    IF pps = <<>> THEN <<>>
    ELSE ParamLines(Head(pps))
         \o (IF Head(rps).help # "" THEN <<"    help: " \o Head(rps).help>> ELSE <<>>)
         \o HelpLines(Tail(pps), Tail(rps))

\* full_help.strip() on the lines: no empty line at either end
RECURSIVE StripLines(_)
StripLines(ls) ==
    IF ls # <<>> /\ Head(ls) = "" THEN StripLines(Tail(ls))
    ELSE IF ls # <<>> /\ Last(ls) = "" THEN StripLines(Front(ls))
    ELSE ls

\* _process_command_info(command_info): the processed record with the help
\* texts generated once; the help text is a sequence of lines
ProcessCommandInfo(ci) ==
    LET pps == IF "params" \in ci.keys
               THEN [j \in 1 .. Len(ci.params) |-> ProcessParam(ci.params[j])]
               ELSE <<>>
        aa == "accepts_args" \in ci.keys
        ak == "accepts_kwargs" \in ci.keys
        text == IF "help" \in ci.keys THEN ci.help ELSE <<"no help">>
        tags == JoinSp([j \in 1 .. Len(pps) |-> ParamTag(pps[j])])
        parts == (IF tags # "" THEN <<tags>> ELSE <<>>)
                 \o (IF aa THEN <<"[*args]">> ELSE <<>>)
                 \o (IF ak THEN <<"[**kwargs]">> ELSE <<>>)
        first == IF text = <<>> THEN "" ELSE text[1]
    IN  [func |-> ci.func,
         params |-> pps,
         accepts_args |-> aa,
         accepts_kwargs |-> ak,
         short_help |-> IF parts # <<>> THEN JoinSp(parts) \o " - " \o first
                        ELSE "- " \o first,
         full_help |-> StripLines(
                          text \o <<"">>
                          \o (IF pps # <<>> THEN <<"params:">> \o HelpLines(pps, ci.params)
                              ELSE <<>>)
                          \o (IF aa THEN <<"", "variadic positional (*args):",
                                           "  help: " \o ci.accepts_args>> ELSE <<>>)
                          \o (IF ak THEN <<"", "variadic keyword (**kwargs):",
                                           "  help: " \o ci.accepts_kwargs>> ELSE <<>>)
                          \o (IF "return_info" \in ci.keys
                              THEN <<"", "returns: " \o ci.return_info>> ELSE <<>>))]

\* the CommandInfo dictionaries of the four built-in commands
BuiltinInfo ==
    [c \in Builtins |->
        CASE c = "help" ->
                RawInfo("_cmd_help", {"params", "help"},
                        <<Helped(RawParam("command", "str", TRUE, "None", "no"),
                                 "the command to show help for")>>, <<"show help">>)
          [] c = "raw" ->
                [RawInfo("_cmd_raw", {"accepts_args", "help"}, <<>>, <<"return raw text">>)
                    EXCEPT !.accepts_args = "the raw text to return"]
          [] c = "alias" ->
                RawInfo("_cmd_alias", {"params", "help"},
                        <<Helped(RawParam("alias", "str", FALSE, "None", "unset"),
                                 "the alias to add"),
                          Helped(RawParam("command", "str", FALSE, "None", "unset"),
                                 "the command the alias stands for")>>,
                        <<"add an alias">>)
          [] c = "unalias" ->
                RawInfo("_cmd_unalias", {"params", "help"},
                        <<Helped(RawParam("alias", "str", FALSE, "None", "unset"),
                                 "the alias to remove")>>,
                        <<"remove an alias">>)]

\* the CommandInfo dictionaries the host registers:
\* greet(n: str, t: int = 1), and a command taking *args and **kwargs with
\* an optional integer parameter that may be given by position
CommandInfos ==
    { RawInfo("greet", {"params", "help"},
              <<RawParam("n", "str", FALSE, "None", "unset"),
                RawParam("t", "int", TRUE, "1", "unset")>>,
              <<"greet somebody", "several times">>),
      RawInfo("list", {"params", "accepts_args", "accepts_kwargs"},
              <<RawParam("n", "int", TRUE, "0", "no")>>, <<>>) }

\* ping(t: int): one required integer parameter, nothing variadic
PingInfo == RawInfo("ping", {"params"}, <<RawParam("t", "int", FALSE, "None", "unset")>>, <<>>)

NoOp == [kind |-> "none", a |-> "", c |-> "", ret |-> ""]

\* no parse call has been made: kind is how the call ended ("empty" when it
\* returned None without a command, an exception name, or "called"), fexc the
\* exception the command function raised, ret what it returned
NoRes ==
    [kind |-> "none", input |-> <<>>, tokens |-> <<>>, cmd |-> "", func |-> "",
     args |-> <<>>, kwargs |-> <<>>, fexc |-> "", ret |-> <<>>, out |-> <<>>,
     listed |-> {}]

-----------------------------------------------------------------------------
(* State after construction: EventManager() and CommandParser() *)

\* no IDPool call yet; bad: some release_id was called on an ID not issued
NoCall == [kind |-> "none", id |-> 0, exc |-> "", bad |-> FALSE]

\* the host has built no object yet
NoHeap == <<>>
\* no PathResolver call yet
NoPr == [kind |-> "none", exc |-> "", ret |-> <<>>, ok |-> FALSE, parts |-> <<>>, val |-> <<>>]

Init ==
    /\ acts = <<>>
    /\ event_listeners = [e \in Events |-> <<>>]
    /\ scheduled_times = <<>>
    /\ scheduled_tasks = <<>>
    /\ stack = <<>>
    /\ ev = Ev("init", "", "", 0, 0)
    /\ credit = [m \in Events \X Fns |-> 0]
    /\ commands = Builtins
    /\ aliases = DefaultAliases
    /\ outcome = "ok"
    /\ info = [c \in Builtins |-> ProcessCommandInfo(BuiltinInfo[c])]
    /\ op = NoOp
    /\ res = NoRes
    /\ line = <<>>
    /\ id = 1
    /\ free_ids = {}
    /\ objects = <<>>
    /\ issued = {}
    /\ pool = NoCall
    /\ heap = NoHeap
    /\ pr = NoPr

-----------------------------------------------------------------------------
(* EventManager: the registering operations, shared by host and callables *)

\* add_act(func)
add_act(fn) == acts' = Append(acts, fn)

\* a schedule_task that pushes the timestamp whether or not it has a bucket
schedule_task_push(t, fn) ==
    /\ scheduled_times' = HeapPush(scheduled_times, t)
    /\ scheduled_tasks' = IF t \in DOMAIN scheduled_tasks
                          THEN [scheduled_tasks EXCEPT ![t] = Append(@, fn)]
                          ELSE (t :> <<fn>>) @@ scheduled_tasks

\* schedule_task(timestamp, func)
schedule_task(t, fn) ==
    /\ scheduled_times' = IF t \in DOMAIN scheduled_tasks
                          THEN scheduled_times
                          ELSE HeapPush(scheduled_times, t)
    /\ scheduled_tasks' = IF t \in DOMAIN scheduled_tasks
                          THEN [scheduled_tasks EXCEPT ![t] = Append(@, fn)]
                          ELSE (t :> <<fn>>) @@ scheduled_tasks

\* subscribe(event_name, func, persist)
subscribe(e, fn, p) ==
    /\ event_listeners' = [event_listeners EXCEPT ![e] = Append(@, <<fn, p>>)]
    /\ credit' = IF p \/ credit[<<e, fn>>] < 0 THEN credit
                 ELSE [credit EXCEPT ![<<e, fn>>] = @ + 1]

\* the returned time taken as it is
ClampNoFloor(n, t) == n

\* the re-schedule time of a task that returned the truthy value n from bucket t
Clamp(n, t) == IF n >= t + Step THEN n ELSE t + Step

\* every return value re-schedules
TruthyAlways(n) == TRUE

\* a number is falsy exactly when it is zero
Truthy(n) == n # 0

\* the manager swallows the exception and goes on with the next callable
UnwindCaught(s) == [Front(s) EXCEPT ![Len(s) - 1] = [@ EXCEPT !.i = @ + 1]]

\* an exception leaves every frame: no frame of the manager has a handler
Unwind(s) == <<>>

-----------------------------------------------------------------------------
(* History bookkeeping on the frames *)

SetTop(fr) == [stack EXCEPT ![Len(stack)] = fr]
Push(s, fr) == Append(s, fr)

\* a monitor was appended to e's list while these trigger_event calls run
NoteSubscribed(s, e, m) ==
    [j \in 1 .. Len(s) |->
        IF s[j].k = "trigger" /\ s[j].e = e
        THEN [s[j] EXCEPT !.added = Append(@, m)] ELSE s[j]]

\* an action was appended after run_cycle rebound self.acts
NoteAdded(s, fn) ==
    [j \in 1 .. Len(s) |->
        IF s[j].k = "cycle" /\ s[j].phase = "b"
        THEN [s[j] EXCEPT !.added = Append(@, fn)] ELSE s[j]]

\* a task was scheduled at a time <= current_time while the actions run
NoteScheduled(s, t, fn) ==
    [j \in 1 .. Len(s) |->
        IF s[j].k = "cycle" /\ s[j].phase = "a" /\ t <= s[j].T
        THEN [s[j] EXCEPT !.asched = TRUE] ELSE s[j]]

\* trigger_event(e) was entered while these trigger_event(e) calls run
NoteNested(s, e) ==
    [j \in 1 .. Len(s) |->
        IF s[j].k = "trigger" /\ s[j].e = e
        THEN [s[j] EXCEPT !.nested = TRUE] ELSE s[j]]

UseCredit(e, m) ==
    IF m[2] \/ credit[<<e, m[1]>>] < 0 THEN credit
    ELSE [credit EXCEPT ![<<e, m[1]>>] = @ - 1]

-----------------------------------------------------------------------------
(* EventManager: the host's calls *)

AddAct(fn) ==
    /\ Idle /\ Size < MaxReg
    /\ add_act(fn)
    /\ ev' = Ev("add_act", "host", fn, 0, 0)
    /\ UNCHANGED <<event_listeners, scheduled_times, scheduled_tasks, stack, credit>>
    /\ UNCHANGED regVars

ScheduleTask(t, fn) ==
    /\ Idle /\ Size < MaxReg
    /\ schedule_task(t, fn)
    /\ ev' = Ev("schedule", "host", fn, t, 0)
    /\ UNCHANGED <<acts, event_listeners, stack, credit>>
    /\ UNCHANGED regVars

Subscribe(e, fn, p) ==
    /\ Idle /\ Size < MaxReg
    /\ subscribe(e, fn, p)
    /\ ev' = Ev("subscribe", "host", fn, 0, 0)
    /\ UNCHANGED <<acts, scheduled_times, scheduled_tasks, stack>>
    /\ UNCHANGED regVars

TriggerEvent(e) ==
    /\ Idle
    /\ stack' = <<TriggerFrame(e)>>
    /\ ev' = Ev("trigger", "host", e, 0, 0)
    /\ UNCHANGED <<acts, event_listeners, scheduled_times, scheduled_tasks, credit>>
    /\ UNCHANGED regVars

RunCycle(T) ==
    /\ Idle
    /\ stack' = <<CycleFrame(T)>>
    /\ ev' = Ev("run_cycle", "host", "", T, 0)
    /\ UNCHANGED <<acts, event_listeners, scheduled_times, scheduled_tasks, credit>>
    /\ UNCHANGED regVars

-----------------------------------------------------------------------------
(* run_cycle, phase (a): [event for event in self.acts if not event()] *)

\* the comprehension over a copy of the list taken when run_cycle started
ActsCopy(fr) == fr.start

\* for event in self.acts: the comprehension iterates the list object itself,
\* so it sees what is appended to it while it runs
ActsLive(fr) == acts

\* the comprehension reads the next element of the live list and calls it
ActInvoke ==
    /\ ~Idle /\ Top.k = "cycle" /\ Top.phase = "a"
    /\ Top.i <= Len(ActsLive(Top))
    /\ stack' = Push(stack, CbFrame("act", ActsLive(Top)[Top.i]))
    /\ ev' = Ev("invoke", "act", ActsLive(Top)[Top.i], 0, 0)
    /\ UNCHANGED <<acts, event_listeners, scheduled_times, scheduled_tasks, credit>>
    /\ UNCHANGED regVars

\* every action is kept, whatever it returned
KeptAll(kept, fn, done) == Append(kept, fn)

\* the comprehension keeps the action iff it returned a falsy value
Kept(kept, fn, done) == IF done THEN kept ELSE Append(kept, fn)

\* the action returned
ActReturn(done) ==
    /\ InCb /\ Top.role = "act"
    /\ stack' = [Front(stack) EXCEPT ![Len(stack) - 1] =
                    [Caller EXCEPT !.i = @ + 1,
                                   !.kept = Kept(@, Top.fn, done),
                                   !.log = Append(@, <<Top.fn, done>>)]]
    /\ ev' = Ev("return", "act", Top.fn, 0, IF done THEN 1 ELSE 0)
    /\ UNCHANGED <<acts, event_listeners, scheduled_times, scheduled_tasks, credit>>
    /\ UNCHANGED regVars

\* the list is exhausted: self.acts is rebound to the kept actions
ActsDone ==
    /\ ~Idle /\ Top.k = "cycle" /\ Top.phase = "a"
    /\ Top.i > Len(ActsLive(Top))
    /\ acts' = Top.kept
    /\ stack' = SetTop([Top EXCEPT !.phase = "b", !.i = 1])
    /\ ev' = Ev("acts_done", "", "", Top.T, 0)
    /\ UNCHANGED <<event_listeners, scheduled_times, scheduled_tasks, credit>>
    /\ UNCHANGED regVars

-----------------------------------------------------------------------------
(* run_cycle, phase (b): _run_until_current_time *)

\* the loop condition with < for <=
DueStrict(T) == scheduled_times # <<>> /\ scheduled_times[1] < T

\* while self.scheduled_times and self.scheduled_times[0] <= current_time
Due(T) == scheduled_times # <<>> /\ scheduled_times[1] <= T

\* the bucket read with get: it stays in the dictionary
PopTasksKeep(tasks, t) == tasks

\* self.scheduled_tasks.pop(timestamp, []): the dictionary without the bucket
PopTasks(tasks, t) == [k \in DOMAIN tasks \ {t} |-> tasks[k]]

\* the task called with current_time
TaskArgNow(fr) == fr.T

\* task(timestamp): the argument is the popped timestamp
TaskArg(fr) == fr.ts

\* heappop the earliest timestamp and pop its bucket
PopBucket ==
    /\ ~Idle /\ Top.k = "cycle" /\ Top.phase = "b"
    /\ Top.i > Len(Top.tasks)
    /\ Due(Top.T)
    /\ LET t == scheduled_times[1] IN
        /\ scheduled_times' = HeapPop(scheduled_times)
        /\ scheduled_tasks' = PopTasks(scheduled_tasks, t)
        /\ stack' = SetTop([Top EXCEPT !.ts = t, !.i = 1,
                                       !.tasks = IF t \in DOMAIN scheduled_tasks
                                                 THEN scheduled_tasks[t] ELSE <<>>])
        /\ ev' = Ev("pop", "", "", t, 0)
    /\ UNCHANGED <<acts, event_listeners, credit>>
    /\ UNCHANGED regVars

\* task(timestamp)
TaskInvoke ==
    /\ ~Idle /\ Top.k = "cycle" /\ Top.phase = "b"
    /\ Top.i <= Len(Top.tasks)
    /\ stack' = Push(stack, [CbFrame("task", Top.tasks[Top.i]) EXCEPT !.arg = TaskArg(Top)])
    /\ ev' = Ev("invoke", "task", Top.tasks[Top.i], Top.ts, 0)
    /\ UNCHANGED <<acts, event_listeners, scheduled_times, scheduled_tasks, credit>>
    /\ UNCHANGED regVars

\* the task returned n: a truthy n re-schedules it at the clamped time
TaskReturn(n) ==
    /\ InCb /\ Top.role = "task"
    /\ IF Truthy(n)
       THEN schedule_task(Clamp(n, Caller.ts), Top.fn)
       ELSE UNCHANGED <<scheduled_times, scheduled_tasks>>
    /\ stack' = [Front(stack) EXCEPT ![Len(stack) - 1] = [Caller EXCEPT !.i = @ + 1]]
    /\ ev' = Ev("return", "task", Top.fn, Caller.ts, n)
    /\ UNCHANGED <<acts, event_listeners, credit>>
    /\ UNCHANGED regVars

\* no timestamp is due any more: run_cycle returns
CycleReturn ==
    /\ ~Idle /\ Top.k = "cycle" /\ Top.phase = "b"
    /\ Top.i > Len(Top.tasks)
    /\ ~Due(Top.T)
    /\ stack' = Front(stack)
    /\ ev' = Ev("cycle_done", "", "", 0, Top.T)
    /\ UNCHANGED <<acts, event_listeners, scheduled_times, scheduled_tasks, credit>>
    /\ UNCHANGED regVars

-----------------------------------------------------------------------------
(* trigger_event *)

\* monitor[0](event_info) for the next monitor of the copy
SubInvoke ==
    /\ ~Idle /\ Top.k = "trigger"
    /\ Top.i <= Len(Monitors(Top))
    /\ LET m == Monitors(Top)[Top.i] IN
        /\ stack' = Push(SetTop([Top EXCEPT !.log = Append(@, m)]),
                          [CbFrame("sub", m[1]) EXCEPT !.mon = m])
        /\ credit' = UseCredit(Top.e, m)
        /\ ev' = Ev("invoke", "sub", m[1], 0, 0)
    /\ UNCHANGED <<acts, event_listeners, scheduled_times, scheduled_tasks>>
    /\ UNCHANGED regVars

\* the subscriber returned: a persistent monitor stays, a one-shot monitor is
\* removed with list.remove, which raises ValueError when no equal entry is left
SubReturn ==
    /\ InCb /\ Top.role = "sub"
    /\ LET m == Top.mon
           below == [Front(stack) EXCEPT ![Len(stack) - 1] = [Caller EXCEPT !.i = @ + 1]]
       IN  IF m[2]
           THEN /\ stack' = below
                /\ ev' = Ev("return", "sub", Top.fn, 0, 0)
                /\ UNCHANGED event_listeners
           ELSE IF m \in Range(event_listeners[Caller.e])
           THEN /\ event_listeners' =
                      [event_listeners EXCEPT ![Caller.e] = RemoveFirst(@, m)]
                /\ stack' = below
                /\ ev' = Ev("return", "sub", Top.fn, 0, 0)
           ELSE /\ stack' = Unwind(stack)
                /\ ev' = Ev("raise", "manager", Top.fn, 0, Len(Monitors(Caller)) - Caller.i)
                /\ UNCHANGED event_listeners
    /\ UNCHANGED <<acts, scheduled_times, scheduled_tasks, credit>>
    /\ UNCHANGED regVars

\* the copy is exhausted (or the event has no listeners): trigger_event returns
TriggerReturn ==
    /\ ~Idle /\ Top.k = "trigger"
    /\ Top.i > Len(Monitors(Top))
    /\ stack' = Front(stack)
    /\ ev' = Ev("trigger_done", "", Top.e, 0, 0)
    /\ UNCHANGED <<acts, event_listeners, scheduled_times, scheduled_tasks, credit>>
    /\ UNCHANGED regVars

-----------------------------------------------------------------------------
(* What a running callable (action, task or subscriber) may do *)

CbAddAct(fn) ==
    /\ CanCall /\ Top.role # "sub" /\ Size < MaxReg
    /\ add_act(fn)
    /\ stack' = Called(NoteAdded(stack, fn))
    /\ ev' = Ev("add_act", Top.role, fn, 0, 0)
    /\ UNCHANGED <<event_listeners, scheduled_times, scheduled_tasks, credit>>
    /\ UNCHANGED regVars

CbSchedule(t, fn) ==
    /\ CanCall /\ Top.role # "sub" /\ Size < MaxReg
    /\ schedule_task(t, fn)
    /\ stack' = Called(NoteScheduled(stack, t, fn))
    /\ ev' = Ev("schedule", Top.role, fn, t, 0)
    /\ UNCHANGED <<acts, event_listeners, credit>>
    /\ UNCHANGED regVars

CbSubscribe(e, fn, p) ==
    /\ CanCall /\ Top.role = "sub" /\ Size < MaxReg
    /\ subscribe(e, fn, p)
    /\ stack' = Called(NoteSubscribed(stack, e, <<fn, p>>))
    /\ ev' = Ev("subscribe", Top.role, fn, 0, 0)
    /\ UNCHANGED <<acts, scheduled_times, scheduled_tasks>>
    /\ UNCHANGED regVars

CbTrigger(e) ==
    /\ CanCall /\ Top.role = "sub" /\ NestDepth < MaxNest
    /\ stack' = Push(Called(NoteNested(stack, e)), TriggerFrame(e))
    /\ ev' = Ev("trigger", Top.role, e, 0, 0)
    /\ UNCHANGED <<acts, event_listeners, scheduled_times, scheduled_tasks, credit>>
    /\ UNCHANGED regVars

\* the callables that come after the running one in its caller's loop
Later ==
    CASE Top.role = "act" -> Len(acts) - Caller.i
      [] Top.role = "task" -> Len(Caller.tasks) - Caller.i
      [] Top.role = "sub" -> Len(Monitors(Caller)) - Caller.i

\* the callable raises: the exception reaches the host
CbRaise ==
    /\ InCb
    /\ stack' = Unwind(stack)
    /\ ev' = Ev("raise", Top.role, Top.fn, 0, Later)
    /\ UNCHANGED <<acts, event_listeners, scheduled_times, scheduled_tasks, credit>>
    /\ UNCHANGED regVars

-----------------------------------------------------------------------------
(* The three registries are disjoint: run_cycle reads and writes only acts *)
(* and the scheduler, trigger_event only event_listeners.  Each is checked *)
(* under every use the host and the callables it invokes can make of it.   *)

\* the transient actions and the time scheduler
NextSched ==
    \/ \E fn \in Fns : AddAct(fn)
    \/ \E t \in Times, fn \in Fns : ScheduleTask(t, fn)
    \/ \E T \in Times : RunCycle(T)
    \/ ActInvoke
    \/ \E done \in BOOLEAN : ActReturn(done)
    \/ ActsDone
    \/ PopBucket
    \/ TaskInvoke
    \/ \E n \in RetVals : TaskReturn(n)
    \/ CycleReturn
    \/ \E fn \in Fns : CbAddAct(fn)
    \/ \E t \in Times, fn \in Fns : CbSchedule(t, fn)
    \/ CbRaise

SpecSched == Init /\ [][NextSched]_vars

\* the one-shot publish/subscribe mechanism
NextEvents ==
    \/ \E e \in Events, fn \in Fns, p \in BOOLEAN : Subscribe(e, fn, p)
    \/ \E e \in Events : TriggerEvent(e)
    \/ SubInvoke
    \/ SubReturn
    \/ TriggerReturn
    \/ \E e \in Events, fn \in Fns, p \in BOOLEAN : CbSubscribe(e, fn, p)
    \/ \E e \in Events : CbTrigger(e)
    \/ CbRaise

SpecEvents == Init /\ [][NextEvents]_vars

\* both together
NextEM == NextSched \/ NextEvents

SpecEM == Init /\ [][NextEM]_vars

-----------------------------------------------------------------------------
(* The scheduler when callables re-schedule only through their return      *)
(* value.  The interpreter runs a call on until it returns or raises, and  *)
(* every callable terminates: the steps of a running call are fair.  The   *)
(* host is free to stop calling.                                           *)

RunPure ==
    \/ ActInvoke
    \/ \E done \in BOOLEAN : ActReturn(done)
    \/ ActsDone
    \/ PopBucket
    \/ TaskInvoke
    \/ \E n \in RetVals : TaskReturn(n)
    \/ CycleReturn
    \/ CbRaise

NextPure ==
    \/ \E fn \in Fns : AddAct(fn)
    \/ \E t \in Times, fn \in Fns : ScheduleTask(t, fn)
    \/ \E T \in Times : RunCycle(T)
    \/ RunPure

SpecPure == Init /\ [][NextPure]_vars /\ WF_vars(RunPure)

-----------------------------------------------------------------------------
(* CommandParser: the registry operations *)

\* the registry operation just attempted
Op(kind, a, c, ret) == [kind |-> kind, a |-> a, c |-> c, ret |-> ret]

\* an add_command that replaces the record of a registered name
AddCommandOverwrite(name, ci) ==
    /\ commands' = commands \cup {name}
    /\ info' = (name :> ProcessCommandInfo(ci)) @@ info
    /\ outcome' = "ok"
    /\ op' = Op("add_command", name, "", "")
    /\ UNCHANGED <<aliases, res, line>>
    /\ UNCHANGED emVars

\* add_command(command_name, command_info)
AddCommand(name, ci) ==
    /\ IF name \in commands
       THEN /\ outcome' = "ValueError"
            /\ UNCHANGED <<commands, info>>
       ELSE /\ commands' = commands \cup {name}
            /\ info' = (name :> ProcessCommandInfo(ci)) @@ info
            /\ outcome' = "ok"
    /\ op' = Op("add_command", name, "", "")
    /\ UNCHANGED <<aliases, res, line>>
    /\ UNCHANGED emVars

\* remove_command without the loop over the aliases
RemoveAliasesKeep(al, name) == al

\* the alias table after remove_command dropped the aliases of the command
RemoveAliases(al, name) == [a \in {x \in DOMAIN al : al[x] # name} |-> al[a]]

\* remove_command(command_name): the aliases of the command go with it
RemoveCommand(name) ==
    /\ IF name \notin commands
       THEN /\ outcome' = "NotACommand"
            /\ UNCHANGED <<commands, aliases, info>>
       ELSE /\ aliases' = RemoveAliases(aliases, name)
            /\ commands' = commands \ {name}
            /\ info' = [c \in commands \ {name} |-> info[c]]
            /\ outcome' = "ok"
    /\ op' = Op("remove_command", name, "", "")
    /\ UNCHANGED <<res, line>>
    /\ UNCHANGED emVars

\* the checks of _cmd_alias reduced to the existence of the target
AliasRefusedLax(alias, command) == command \notin commands

\* _cmd_alias raises ValueError: unknown target, alias taken, alias is a command
AliasRefused(alias, command) ==
    command \notin commands \/ alias \in DOMAIN aliases \/ alias \in commands

\* the effect of _cmd_alias(alias, command) on the registry
alias_effect(alias, command) ==
    /\ IF AliasRefused(alias, command)
       THEN /\ outcome' = "ValueError"
            /\ UNCHANGED aliases
       ELSE /\ aliases' = (alias :> command) @@ aliases
            /\ outcome' = "ok"
    /\ op' = Op("alias", alias, command, "")
    /\ UNCHANGED <<commands, info>>

\* the effect of _cmd_unalias(alias) on the registry
unalias_effect(alias) ==
    /\ IF alias \notin DOMAIN aliases
       THEN /\ outcome' = "ValueError"
            /\ UNCHANGED aliases
       ELSE /\ aliases' = [a \in DOMAIN aliases \ {alias} |-> aliases[a]]
            /\ outcome' = "ok"
    /\ op' = Op("unalias", alias, "", "")
    /\ UNCHANGED <<commands, info>>

\* _cmd_alias(alias, command)
CmdAlias(alias, command) ==
    /\ alias_effect(alias, command)
    /\ UNCHANGED <<res, line>>
    /\ UNCHANGED emVars

\* _cmd_unalias(alias)
CmdUnalias(alias) ==
    /\ unalias_effect(alias)
    /\ UNCHANGED <<res, line>>
    /\ UNCHANGED emVars

\* following the alias table until a name that is no alias
RECURSIVE ResolveChase(_, _)
ResolveChase(al, name) ==
    IF name \in DOMAIN al /\ al[name] # name THEN ResolveChase(al, al[name]) ELSE name

\* self.aliases.get(command, command)
ResolveIn(al, name) == IF name \in DOMAIN al THEN al[name] ELSE name

\* resolve_command(command)
ResolveCommand(name) ==
    /\ op' = Op("resolve", name, "", ResolveIn(aliases, name))
    /\ UNCHANGED <<commands, aliases, outcome, info, res, line>>
    /\ UNCHANGED emVars

NextReg ==
    \/ \E name \in Names, ci \in CommandInfos : AddCommand(name, ci)
    \/ \E name \in Names : RemoveCommand(name)
    \/ \E alias \in Names, command \in Names : CmdAlias(alias, command)
    \/ \E alias \in Names : CmdUnalias(alias)
    \/ \E name \in Names : ResolveCommand(name)

SpecReg == Init /\ [][NextReg]_vars

-----------------------------------------------------------------------------
(* CommandParser: the tokenizer.  An input is a sequence of characters; a   *)
(* value is a type name with its text, so that a string and the number it   *)
(* spells are different values.                                              *)

Digits == {"0", "1", "3", "7"}
IsSpace(ch) == ch = " "

RECURSIVE Str(_)
\* ''.join(chars)
Str(cs) == IF cs = <<>> THEN "" ELSE Head(cs) \o Str(Tail(cs))

StrVal(cs) == [t |-> "str", s |-> cs]
IntVal(cs) == [t |-> "int", s |-> cs]
FloatVal(cs) == [t |-> "float", s |-> cs]
BoolVal(b) == [t |-> "bool", s |-> IF b THEN <<"T", "r", "u", "e">> ELSE <<"F", "a", "l", "s", "e">>]

\* the parser's namespace: v is the integer 7, w the string "a b"
Namespace == ("v" :> IntVal(<<"7">>)) @@ ("w" :> StrVal(<<"a", " ", "b">>))

\* path.split('.'): the parts of a dotted path
RECURSIVE SplitDot(_)
SplitDot(cs) ==
    IF "." \notin Range(cs) THEN <<cs>>
    ELSE LET j == CHOOSE k \in 1 .. Len(cs) : cs[k] = "." /\ \A m \in 1 .. k - 1 : cs[m] # "."
         IN  <<SubSeq(cs, 1, j - 1)>> \o SplitDot(SubSeq(cs, j + 1, Len(cs)))

\* the decimal value of a digit string
RECURSIVE NatOf(_)
NatOf(cs) ==
    IF cs = <<>> THEN 0
    ELSE 10 * NatOf(Front(cs))
         + (CASE Last(cs) = "1" -> 1 [] Last(cs) = "3" -> 3 [] Last(cs) = "7" -> 7 [] OTHER -> 0)

\* PathResolver._get_next(current, part), found being FALSE when it raises
\* IndexError, KeyError or AttributeError: an all-digit part indexes a string
\* and is a missing key of the namespace; any other part is a key of the
\* namespace, and an attribute no string or integer of the model has
GetNext(current, part) ==
    IF part # <<>> /\ Range(part) \subseteq Digits
    THEN IF current.t = "str" /\ NatOf(part) < Len(current.s)
         THEN [found |-> TRUE, v |-> StrVal(<<current.s[NatOf(part) + 1]>>)]
         ELSE [found |-> FALSE, v |-> current]
    ELSE IF current.t = "dict" /\ Str(part) \in DOMAIN Namespace
         THEN [found |-> TRUE, v |-> Namespace[Str(part)]]
         ELSE [found |-> FALSE, v |-> current]

\* the loop of PathResolver.get over the parts
RECURSIVE GetPath(_, _)
GetPath(current, parts) ==
    IF parts = <<>> THEN [found |-> TRUE, v |-> current]
    ELSE LET r == GetNext(current, Head(parts))
         IN  IF r.found THEN GetPath(r.v, Tail(parts)) ELSE r

\* PathResolver.get(self.namespace, name, '$' + name)
Lookup(name) ==
    LET r == GetPath([t |-> "dict", s |-> <<>>], SplitDot(name))
    IN  IF r.found THEN r.v ELSE StrVal(<<"$">> \o name)

\* a plain token and a key=value token
Plain(v) == [d |-> FALSE, k |-> <<>>, v |-> v]
Mapping(k, v) == [d |-> TRUE, k |-> k, v |-> v]

\* the tokenizer's local variables
TokInit ==
    [tokens |-> <<>>, cur |-> <<>>, key |-> <<>>, quote |-> "", esc |-> FALSE,
     vp |-> FALSE]

\* tokens.append of a finished value: a mapping while a key is pending
Emit(st, v) ==
    [st EXCEPT !.tokens = Append(@, IF st.vp THEN Mapping(st.key, v) ELSE Plain(v)),
               !.vp = FALSE]

\* finish_token()
FinishToken(st) == [Emit(st, StrVal(st.cur)) EXCEPT !.cur = <<>>]

\* an escape that keeps every character as it is
UnescapeKeep(ch) == ch

\* the escape sequences: \n, \t, and any other character as itself
Unescape(ch) == IF ch = "n" THEN "\n" ELSE IF ch = "t" THEN "\t" ELSE ch

\* a variable name that also ends at '='
RECURSIVE NameEndEq(_, _)
NameEndEq(cs, i) ==
    IF i > Len(cs) \/ IsSpace(cs[i]) \/ cs[i] = "=" THEN i ELSE NameEndEq(cs, i + 1)

\* the index of the first whitespace at or after i, or Len(cs) + 1
RECURSIVE NameEnd(_, _)
NameEnd(cs, i) == IF i > Len(cs) \/ IsSpace(cs[i]) THEN i ELSE NameEnd(cs, i + 1)

\* a quote character inside quotes that ends the quote: either kind
ClosesEither(st, ch) == ch \in {"\"", "'"}

\* char == in_quote
Closes(st, ch) == ch = st.quote

\* a variable that starts anywhere in a token
VarStartAnywhere(st, ch) == ch = "$"

\* char == '$' and not current_token
VarStart(st, ch) == ch = "$" /\ st.cur = <<>>

\* char == '=' and current_token
KeyStart(st, ch) == ch = "=" /\ st.cur # <<>>

\* an end of input that drops the content of a quote left open
AtEndUnquoted(st) ==
    IF st.cur # <<>> /\ st.quote = "" THEN FinishToken(st).tokens ELSE st.tokens

\* after the loop: the last token, if current_token is not empty
AtEnd(st) == IF st.cur # <<>> THEN FinishToken(st).tokens ELSE st.tokens

\* the while loop of _tokenize_input from index i, then the final token
RECURSIVE TokLoop(_, _, _)
TokLoop(cs, i, st) ==
    IF i > Len(cs)
    THEN AtEnd(st)
    ELSE LET ch == cs[i] IN
         IF st.esc
         THEN TokLoop(cs, i + 1, [st EXCEPT !.cur = Append(@, Unescape(ch)), !.esc = FALSE])
         ELSE IF ch = "\\"
         THEN TokLoop(cs, i + 1, [st EXCEPT !.esc = TRUE])
         ELSE IF st.quote # ""
         THEN IF Closes(st, ch)
              THEN TokLoop(cs, i + 1, FinishToken([st EXCEPT !.quote = ""]))
              ELSE TokLoop(cs, i + 1, [st EXCEPT !.cur = Append(@, ch)])
         ELSE IF ch \in {"\"", "'"}
         THEN TokLoop(cs, i + 1, [st EXCEPT !.quote = ch])
         ELSE IF VarStart(st, ch)
         THEN LET e == NameEnd(cs, i + 1)
              IN  TokLoop(cs, e, Emit(st, Lookup(SubSeq(cs, i + 1, e - 1))))
         ELSE IF KeyStart(st, ch)
         THEN TokLoop(cs, i + 1, [st EXCEPT !.key = st.cur, !.cur = <<>>, !.vp = TRUE])
         ELSE IF IsSpace(ch)
         THEN TokLoop(cs, i + 1, IF st.cur # <<>> THEN FinishToken(st) ELSE st)
         ELSE TokLoop(cs, i + 1, [st EXCEPT !.cur = Append(@, ch)])

\* _tokenize_input(user_input)
Tokenize(cs) == TokLoop(cs, 1, TokInit)

\* str.strip()
RECURSIVE LStrip(_)
LStrip(cs) == IF cs # <<>> /\ IsSpace(Head(cs)) THEN LStrip(Tail(cs)) ELSE cs
RECURSIVE RStrip(_)
RStrip(cs) == IF cs # <<>> /\ IsSpace(Last(cs)) THEN RStrip(Front(cs)) ELSE cs
Strip(cs) == RStrip(LStrip(cs))

-----------------------------------------------------------------------------
(* CommandParser.parse: conversion of values *)

\* str.lower() on the letters of the inputs
Lower(ch) ==
    CASE ch = "A" -> "a" [] ch = "B" -> "b" [] ch = "T" -> "t" [] OTHER -> ch
LowerAll(cs) == [j \in 1 .. Len(cs) |-> Lower(cs[j])]

\* str.isdigit()
IsDigit(cs) == cs # <<>> /\ Range(cs) \subseteq Digits

RECURSIVE DropZeros(_)
\* the decimal text of int(cs) for a digit string: no leading zeros
DropZeros(cs) == IF Len(cs) > 1 /\ Head(cs) = "0" THEN DropZeros(Tail(cs)) ELSE cs

RECURSIVE DropTrailingZeros(_)
DropTrailingZeros(cs) ==
    IF Len(cs) > 1 /\ Last(cs) = "0" THEN DropTrailingZeros(Front(cs)) ELSE cs

\* value.replace('.', '', 1): the text without its first dot
DotAt(cs) == CHOOSE j \in 1 .. Len(cs) : cs[j] = "." /\ \A k \in 1 .. j - 1 : cs[k] # "."
WithoutDot(cs) ==
    IF "." \in Range(cs)
    THEN SubSeq(cs, 1, DotAt(cs) - 1) \o SubSeq(cs, DotAt(cs) + 1, Len(cs))
    ELSE cs

\* the text of float(cs) for digits with one dot: "1." is 1.0, ".5" is 0.5
FloatText(cs) ==
    LET ip == SubSeq(cs, 1, DotAt(cs) - 1)
        fp == SubSeq(cs, DotAt(cs) + 1, Len(cs))
    IN  DropZeros(IF ip = <<>> THEN <<"0">> ELSE ip) \o <<".">>
        \o DropTrailingZeros(IF fp = <<>> THEN <<"0">> ELSE fp)

TrueWord == <<"t", "r", "u", "e">>
FalseWord == <<"f", "a", "l", "s", "e">>
Truish == {TrueWord, <<"1">>, <<"y", "e", "s">>, <<"y">>}

\* the outcome of a conversion: a value, or the exception raised
Ok(v) == [exc |-> "", v |-> v]
Raise(e) == [exc |-> e, v |-> StrVal(<<>>)]

\* int(x) and float(x) accept surrounding whitespace
IntOf(v) ==
    IF v.t = "str"
    THEN IF IsDigit(Strip(v.s)) THEN Ok(IntVal(DropZeros(Strip(v.s)))) ELSE Raise("ValueError")
    ELSE IF v.t = "float" THEN Ok(IntVal(SubSeq(v.s, 1, DotAt(v.s) - 1)))
    ELSE Ok(IntVal(v.s))
FloatOf(v) ==
    IF v.t = "str"
    THEN LET x == Strip(v.s) IN
         IF IsDigit(x) THEN Ok(FloatVal(DropZeros(x) \o <<".", "0">>))
         ELSE IF "." \in Range(x) /\ IsDigit(WithoutDot(x)) THEN Ok(FloatVal(FloatText(x)))
         ELSE Raise("ValueError")
    ELSE Ok(FloatVal(v.s \o <<".", "0">>))

\* isinstance(value, type): a bool is an int as well
IsInstance(v, type) == v.t = type \/ (v.t = "bool" /\ type = "int")

\* process_param: a value of the declared type passes; bool looks at the
\* lowered text (a value without lower() raises AttributeError, which is not
\* caught); otherwise the type is called and ValueError becomes TypeError
ProcessValue(type, v) ==
    LET r == IF IsInstance(v, type) THEN Ok(v)
             ELSE IF type = "bool"
             THEN IF v.t = "str" THEN Ok(BoolVal(LowerAll(v.s) \in Truish))
                  ELSE Raise("AttributeError")
             ELSE IF type = "int" THEN IntOf(v)
             ELSE IF type = "float" THEN FloatOf(v)
             ELSE Ok(StrVal(v.s))
    IN  IF r.exc = "ValueError" THEN Raise("TypeError") ELSE r

\* every surplus value is left as it is
TryConvertTypeNone(v) == v

\* try_convert_type: int for digits, float for digits with one dot, bool for
\* true/false, and the value itself otherwise (a non-string is returned as is)
TryConvertType(v) ==
    IF v.t # "str" THEN v
    ELSE IF IsDigit(v.s) THEN IntVal(DropZeros(v.s))
    ELSE IF "." \in Range(v.s) /\ IsDigit(WithoutDot(v.s)) THEN FloatVal(FloatText(v.s))
    ELSE IF LowerAll(v.s) \in {TrueWord, FalseWord} THEN BoolVal(LowerAll(v.s) = TrueWord)
    ELSE v

-----------------------------------------------------------------------------
(* CommandParser.parse: binding the tokens to the parameters *)

ParamNames(pi) == {pi.params[j].name : j \in 1 .. Len(pi.params)}
ParamOf(pi, name) == pi.params[CHOOSE j \in 1 .. Len(pi.params) : pi.params[j].name = name]

\* the binding in progress: kwin is keyword_args_input in insertion order,
\* pos positional_args, kwargs / args_list / keyword_args as in the code
BindInit ==
    [exc |-> "", kwin |-> <<>>, pos |-> <<>>, kwargs |-> <<>>, args_list |-> <<>>,
     keyword_args |-> <<>>]
Fail(b, e) == [b EXCEPT !.exc = e]

\* a separation in which a repeated key silently replaces the earlier value
RECURSIVE SeparateLax(_, _)
SeparateLax(args, b) ==
    IF args = <<>> THEN b
    ELSE LET tk == Head(args)
             Other(kv) == kv[1] # Str(tk.k)
         IN  IF tk.d
             THEN SeparateLax(Tail(args),
                      [b EXCEPT !.kwin = Append(SelectSeq(@, Other), <<Str(tk.k), tk.v>>)])
             ELSE SeparateLax(Tail(args), [b EXCEPT !.pos = Append(@, tk.v)])

\* the loop that separates key=value tokens from positional ones
RECURSIVE Separate(_, _)
Separate(args, b) ==
    IF args = <<>> THEN b
    ELSE LET tk == Head(args) IN
         IF tk.d
         THEN IF \E j \in 1 .. Len(b.kwin) : b.kwin[j][1] = Str(tk.k)
              THEN Fail(b, "ParamError")
              ELSE Separate(Tail(args), [b EXCEPT !.kwin = Append(@, <<Str(tk.k), tk.v>>)])
         ELSE Separate(Tail(args), [b EXCEPT !.pos = Append(@, tk.v)])

\* step 1: the keyword inputs, in the order they were given
RECURSIVE BindKeywords(_, _, _)
BindKeywords(pi, j, b) ==
    IF j > Len(b.kwin) THEN b
    ELSE LET name == b.kwin[j][1]
             v == b.kwin[j][2]
         IN  IF name \in ParamNames(pi)
             THEN LET r == ProcessValue(ParamOf(pi, name).type, v)
                  IN  IF r.exc # "" THEN Fail(b, r.exc)
                      ELSE BindKeywords(pi, j + 1,
                                        [b EXCEPT !.kwargs = (name :> r.v) @@ @])
             ELSE IF pi.accepts_kwargs
             THEN BindKeywords(pi, j + 1, [b EXCEPT !.keyword_args = (name :> v) @@ @])
             ELSE Fail(b, "ParamError")

\* every parameter that is not keyword-only, bound or not
PositionableAll(pi, kwargs) ==
    LET Free(pp) == ~pp.keyword_only
    IN  [j \in 1 .. Len(SelectSeq(pi.params, Free)) |-> SelectSeq(pi.params, Free)[j].name]

\* positionable_params: declared, not bound by keyword, not keyword-only
Positionable(pi, kwargs) ==
    LET Free(pp) == pp.name \notin DOMAIN kwargs /\ ~pp.keyword_only
    IN  [j \in 1 .. Len(SelectSeq(pi.params, Free)) |-> SelectSeq(pi.params, Free)[j].name]

\* step 2: the positional tokens
RECURSIVE BindPositional(_, _, _, _)
BindPositional(pi, able, i, b) ==
    IF i > Len(b.pos) THEN b
    ELSE IF i <= Len(able)
    THEN LET r == ProcessValue(ParamOf(pi, able[i]).type, b.pos[i])
         IN  IF r.exc # "" THEN Fail(b, r.exc)
             ELSE BindPositional(pi, able, i + 1,
                                 [b EXCEPT !.kwargs = (able[i] :> r.v) @@ @])
    ELSE IF pi.accepts_args
    THEN BindPositional(pi, able, i + 1,
                        [b EXCEPT !.args_list = Append(@, TryConvertType(b.pos[i]))])
    ELSE Fail(b, "ParamError")

\* no parameter is ever reported as missing
MissingNone(pi, kwargs) == FALSE

\* the check of the required parameters
Missing(pi, kwargs) ==
    \E j \in 1 .. Len(pi.params) :
        ~pi.params[j].optional /\ pi.params[j].name \notin DOMAIN kwargs

\* the binding part of parse, up to the call of the function
Bind(pi, args) ==
    LET b1 == Separate(args, BindInit)
        b2 == IF b1.exc # "" THEN b1 ELSE BindKeywords(pi, 1, b1)
        b3 == IF b2.exc # "" THEN b2
              ELSE BindPositional(pi, Positionable(pi, b2.kwargs), 1, b2)
    IN  IF b3.exc # "" THEN b3
        ELSE IF Missing(pi, b3.kwargs) THEN Fail(b3, "ParamError")
        ELSE b3

-----------------------------------------------------------------------------
(* CommandParser.parse: the host composes a line word by word and has it    *)
(* parsed                                                                    *)

\* at most MaxWords words on a line
MaxWords == 3

Words ==
    { <<"g", "o">>, <<"x">>, <<"A">>, <<"3">>, <<"1", ".">>,
      <<"t", "r", "u", "e">>, <<"t", "=", "3">>, <<"n", "=", "A">>,
      <<"t", "=", "A">>, <<"\\">> }

\* the words joined by single spaces
RECURSIVE JoinWords(_)
JoinWords(ws) ==
    IF ws = <<>> THEN <<>>
    ELSE IF Len(ws) = 1 THEN ws[1]
    ELSE ws[1] \o <<" ">> \o JoinWords(Tail(ws))

\* the strings of the values joined by single spaces
RECURSIVE JoinVals(_)
JoinVals(vs) ==
    IF vs = <<>> THEN <<>>
    ELSE IF Len(vs) = 1 THEN vs[1].s
    ELSE vs[1].s \o <<" ">> \o JoinVals(Tail(vs))

TypeWord(w) ==
    /\ Len(line) < MaxWords
    /\ line' = Append(line, w)
    /\ res' = NoRes
    /\ UNCHANGED <<commands, aliases, outcome, info, op>>
    /\ UNCHANGED emVars

\* a parse call that ends before any command function is called
Ended(kind, input, tokens, cmd) ==
    /\ res' = [NoRes EXCEPT !.kind = kind, !.input = input, !.tokens = tokens, !.cmd = cmd]
    /\ UNCHANGED <<commands, aliases, outcome, info, op>>

\* the lines _show_command_help prints for one parameter of the stored
\* record: the record always has a 'default' entry and never a 'help' entry
RECURSIVE ShownParams(_)
ShownParams(pps) ==
    IF pps = <<>> THEN <<>>
    ELSE << "  " \o Head(pps).name \o ": " \o Head(pps).type \o " (optional)",
            "    default: " \o Head(pps).default,
            "    help: no help" >> \o ShownParams(Tail(pps))

\* _show_command_help(cmd_name) for a registered name: the lines printed
ShowCommandHelp(name) ==
    <<"command: " \o name, "help: no help", "params:">>
    \o ShownParams(info[name].params)
    \o << "  *args: " \o (IF info[name].accepts_args THEN "True" ELSE "False"),
          "  **kwargs: " \o (IF info[name].accepts_kwargs THEN "True" ELSE "False") >>

\* _show_command_list(): the lines printed for the commands and for the
\* aliases, as sets (the order of registration is not kept here)
ShowCommandList ==
    {c \o " " \o info[c].short_help : c \in commands}
        \cup {"  " \o a \o " -> " \o aliases[a] : a \in DOMAIN aliases}

\* func(*args_list, **merged_kwargs) for the built-in and the host's functions
Invoke(input, tokens, cmd, pi, b) ==
    LET merged == b.kwargs @@ b.keyword_args
        call == [NoRes EXCEPT !.kind = "called", !.input = input, !.tokens = tokens,
                              !.cmd = cmd, !.func = pi.func, !.args = b.args_list,
                              !.kwargs = merged]
    IN  CASE pi.func = "_cmd_alias" ->
                /\ alias_effect(Str(merged["alias"].s), Str(merged["command"].s))
                /\ res' = [call EXCEPT !.fexc =
                              IF AliasRefused(Str(merged["alias"].s), Str(merged["command"].s))
                              THEN "ValueError" ELSE ""]
          [] pi.func = "_cmd_unalias" ->
                /\ unalias_effect(Str(merged["alias"].s))
                /\ res' = [call EXCEPT !.fexc =
                              IF Str(merged["alias"].s) \notin DOMAIN aliases
                              THEN "ValueError" ELSE ""]
          [] pi.func = "_cmd_help" ->
                /\ res' = IF "command" \notin DOMAIN merged
                          THEN [call EXCEPT !.listed = ShowCommandList]
                          ELSE IF ResolveIn(aliases, Str(merged["command"].s)) \notin commands
                          THEN [call EXCEPT !.fexc = "NotACommand"]
                          ELSE [call EXCEPT !.out =
                                   ShowCommandHelp(ResolveIn(aliases, Str(merged["command"].s)))]
                /\ UNCHANGED <<commands, aliases, outcome, info, op>>
          [] pi.func = "_cmd_raw" ->
                /\ res' = IF \A j \in 1 .. Len(b.args_list) : b.args_list[j].t = "str"
                          THEN [call EXCEPT !.ret = JoinVals(b.args_list)]
                          ELSE [call EXCEPT !.fexc = "TypeError"]
                /\ UNCHANGED <<commands, aliases, outcome, info, op>>
          [] OTHER ->
                /\ res' = call
                /\ UNCHANGED <<commands, aliases, outcome, info, op>>

\* parse(user_input) for the composed line
Parse ==
    /\ line' = <<>>
    /\ LET input == JoinWords(line)
           tokens == Tokenize(Strip(input))
       IN  IF Strip(input) = <<>> \/ tokens = <<>>
           THEN Ended("empty", input, tokens, "")
           ELSE IF tokens[1].d \/ tokens[1].v.t # "str"
           THEN Ended("NotACommand", input, tokens, "")
           ELSE LET cmd == ResolveIn(aliases, Str(tokens[1].v.s)) IN
                IF cmd \notin commands
                THEN Ended("NotACommand", input, tokens, cmd)
                ELSE LET b == Bind(info[cmd], Tail(tokens)) IN
                     IF b.exc # ""
                     THEN Ended(b.exc, input, tokens, cmd)
                     ELSE Invoke(input, tokens, cmd, info[cmd], b)
    /\ UNCHANGED emVars

\* the host registers and removes its command go, gives it the alias x and
\* takes it away, composes lines and parses them
NextParse ==
    \/ \E ci \in CommandInfos \cup {PingInfo} : AddCommand("go", ci)
    \/ RemoveCommand("go")
    \/ CmdAlias("x", "go")
    \/ CmdUnalias("x")
    \/ \E w \in Words : TypeWord(w)
    \/ Parse

SpecParse == Init /\ [][NextParse]_vars

-----------------------------------------------------------------------------
(* The host registers a command with a boolean and an integer parameter,    *)
(* and parses lines that call it and the built-in commands help and raw,    *)
(* with values taken from the namespace                                      *)

\* flag(b: bool, t: int = 0), t may be given by position
FlagInfo ==
    RawInfo("flag", {"params", "help"},
            <<RawParam("b", "bool", FALSE, "None", "unset"),
              Helped(RawParam("t", "int", TRUE, "0", "no"), "how often")>>,
            <<"set the flag">>)

\* name(s: str)
NameInfo == RawInfo("name", {"params"}, <<RawParam("s", "str", FALSE, "None", "unset")>>, <<>>)

CallWords ==
    { <<"g", "o">>, <<"h">>, <<"r">>, <<"y", "e", "s">>, <<"A">>, <<"3">>,
      <<"$", "v">>, <<"$", "w">>, <<"b", "=", "$", "v">>, <<"t", "=", "$", "v">> }

NextCall ==
    \/ \E ci \in {FlagInfo, NameInfo} : AddCommand("go", ci)
    \/ RemoveCommand("go")
    \/ \E w \in CallWords : TypeWord(w)
    \/ Parse

SpecCall == Init /\ [][NextCall]_vars

-----------------------------------------------------------------------------
(* CommandParser._tokenize_input: the host composes a text character by     *)
(* character, or takes a prepared one, and has it tokenized                  *)

\* at most MaxChars characters are typed
MaxChars == 5

\* two letters (w is a variable of the namespace, n is not), and every
\* character the tokenizer treats specially
Chars == {"n", "w", "=", " ", "\"", "'", "$", "\\"}

\* alias a="x y" b=2, and a= b=c
Samples ==
    { <<"a", "l", "i", "a", "s", " ", "a", "=", "\"", "x", " ", "y", "\"", " ",
        "b", "=", "2">>,
      <<"a", "=", " ", "b", "=", "c">> }

\* the text composed so far
Text == IF line = <<>> THEN <<>> ELSE line[1]

TypeChar(c) ==
    /\ Len(Text) < MaxChars
    /\ line' = <<Append(Text, c)>>
    /\ res' = NoRes
    /\ UNCHANGED <<commands, aliases, outcome, info, op>>
    /\ UNCHANGED emVars

TypeSample(cs) ==
    /\ line = <<>>
    /\ line' = <<cs>>
    /\ res' = NoRes
    /\ UNCHANGED <<commands, aliases, outcome, info, op>>
    /\ UNCHANGED emVars

\* self._tokenize_input(text)
TokenizeInput ==
    /\ res' = [NoRes EXCEPT !.kind = "tokens", !.input = Text, !.tokens = Tokenize(Text)]
    /\ line' = <<>>
    /\ UNCHANGED <<commands, aliases, outcome, info, op>>
    /\ UNCHANGED emVars

NextTok ==
    \/ \E c \in Chars : TypeChar(c)
    \/ \E cs \in Samples : TypeSample(cs)
    \/ TokenizeInput

SpecTok == Init /\ [][NextTok]_vars

-----------------------------------------------------------------------------
(* IDPool: IDs are handed out by get_id and given back by release_id *)

\* at most MaxIds fresh IDs are generated
MaxIds == 3

\* the objects the host registers
Objs == {"p", "q"}

Call(kind, i, exc, bad) == [kind |-> kind, id |-> i, exc |-> exc, bad |-> bad]

\* get_id(obj): an ID of free_ids if there is one (set.pop takes any of
\* them), else the next fresh ID, which alone is entered into objects
GetId(obj) ==
    /\ IF free_ids # {}
       THEN \E i \in free_ids :
                /\ free_ids' = free_ids \ {i}
                /\ issued' = issued \cup {i}
                /\ pool' = Call("get_id", i, "", pool.bad)
                /\ UNCHANGED <<id, objects>>
       ELSE /\ id <= MaxIds
            /\ id' = id + 1
            /\ objects' = (id :> obj) @@ objects
            /\ issued' = issued \cup {id}
            /\ pool' = Call("get_id", id, "", pool.bad)
            /\ UNCHANGED free_ids
    /\ UNCHANGED <<managerVars, parserVars, pathVars>>

\* release_id(id_): an ID below self.id is added to free_ids and then deleted
\* from objects, which raises KeyError when objects has no such key
ReleaseId(i) ==
    /\ IF i < id
       THEN /\ free_ids' = free_ids \cup {i}
            /\ IF i \in DOMAIN objects
               THEN /\ objects' = [k \in DOMAIN objects \ {i} |-> objects[k]]
                    /\ pool' = Call("release_id", i, "", pool.bad \/ i \notin issued)
               ELSE /\ objects' = objects
                    /\ pool' = Call("release_id", i, "KeyError", pool.bad \/ i \notin issued)
       ELSE /\ pool' = Call("release_id", i, "", pool.bad \/ i \notin issued)
            /\ UNCHANGED <<free_ids, objects>>
    /\ issued' = issued \ {i}
    /\ UNCHANGED id
    /\ UNCHANGED <<managerVars, parserVars, pathVars>>

NextPool ==
    \/ \E obj \in Objs : GetId(obj)
    \/ \E i \in 1 .. MaxIds + 1 : ReleaseId(i)

SpecPool == Init /\ [][NextPool]_vars

-----------------------------------------------------------------------------
(* PathResolver on objects of the host.  A value is an integer, a string   *)
(* or a reference to an object; an object is a list, a dict or an          *)
(* instance with attributes, and holds values under keys: the integers     *)
(* 0 .. n-1 for a list, integers and strings for a dict, names for an      *)
(* instance.  Objects are shared by reference, so a root may contain       *)
(* itself.                                                                 *)

RefVal(o) == [t |-> "ref", s |-> <<o>>]
Container(kind, items) == [k |-> kind, items |-> items]

K0 == IntVal(<<"0">>)
K1 == IntVal(<<"1">>)
Ka == StrVal(<<"a">>)
Kb == StrVal(<<"b">>)
S1 == StrVal(<<"1">>)
Five == IntVal(<<"5">>)
Seven == IntVal(<<"7">>)

Root == RefVal("o1")
EmptyList == Container("list", <<>>)
Heap(a, b, c) == ("o1" :> a) @@ ("o2" :> b) @@ ("o3" :> c)

\* the objects the host hands to PathResolver:
\* {"a": [5, {"b": 5}]}, {"1": 5}, {1: 5}, a list that contains itself,
\* an instance with a = 5, {"a": "ab"}, [5, <instance>], and two dicts that
\* contain each other
Roots ==
    { Heap(Container("dict", Ka :> RefVal("o2")),
           Container("list", (K0 :> Five) @@ (K1 :> RefVal("o3"))),
           Container("dict", Kb :> Five)),
      Heap(Container("dict", S1 :> Five), EmptyList, EmptyList),
      Heap(Container("dict", K1 :> Five), EmptyList, EmptyList),
      Heap(Container("list", K0 :> Root), EmptyList, EmptyList),
      Heap(Container("obj", Ka :> Five), EmptyList, EmptyList),
      Heap(Container("dict", Ka :> StrVal(<<"a", "b">>)), EmptyList, EmptyList),
      Heap(Container("list", (K0 :> Five) @@ (K1 :> RefVal("o2"))),
           Container("obj", <<>>), EmptyList),
      Heap(Container("dict", Ka :> RefVal("o2")),
           Container("dict", Ka :> Root), EmptyList) }

\* a path is a dotted string or a list of segments
Dotted(cs) == [str |-> TRUE, p |-> cs]
Listed(segs) == [str |-> FALSE, p |-> segs]
DottedPaths ==
    { <<"a">>, <<"1">>, <<"0">>, <<>>, <<"a", ".", "1", ".", "b">>,
      <<"a", ".", "0">>, <<"0", ".", "0">>, <<"a", ".", "a">>,
      <<"m", ".", "p">>, <<"1", ".", "a">> }
ListPaths ==
    { <<>>, <<K0>>, <<K1>>, <<S1>>, <<Ka, K0>>, <<K0, K0>>, <<Ka, K1, Kb>> }
\* the default of get, and the values set stores
Default == IntVal(<<"-", "1">>)
NewVals == {Seven, RefVal("o2")}

\* _normalize_path(path): a string is split at the dots
normalize_path(path) ==
    IF path.str THEN [j \in 1 .. Len(SplitDot(path.p)) |-> StrVal(SplitDot(path.p)[j])]
    ELSE path.p

IsRef(v, kind, h) == v.t = "ref" /\ h[v.s[1]].k = kind
items(v, h) == h[v.s[1]].items

\* current[index] for an integer index
Index(h, current, key) ==
    IF IsRef(current, "list", h)
    THEN IF key \in DOMAIN items(current, h) THEN Ok(items(current, h)[key])
         ELSE Raise("IndexError")
    ELSE IF IsRef(current, "dict", h)
    THEN IF key \in DOMAIN items(current, h) THEN Ok(items(current, h)[key])
         ELSE Raise("KeyError")
    ELSE IF current.t = "str"
    THEN IF NatOf(key.s) < Len(current.s) THEN Ok(StrVal(<<current.s[NatOf(key.s) + 1]>>))
         ELSE Raise("IndexError")
    ELSE Raise("TypeError")

\* every exception of the index attempt is passed over
IndexFallsBackAny(exc) == exc # ""

\* except (ValueError, TypeError): pass
IndexFallsBack(exc) == exc \in {"ValueError", "TypeError"}

\* except (IndexError, KeyError, AttributeError) in get
GetCatches(exc) == exc \in {"IndexError", "KeyError", "AttributeError"}

\* _get_next(current, part)
get_next(h, current, part) ==
    IF part.t = "int" THEN Index(h, current, part)
    ELSE LET tried == IF IsDigit(part.s) THEN Index(h, current, IntVal(DropZeros(part.s)))
                      ELSE Raise("ValueError")
         IN  IF ~IndexFallsBack(tried.exc) THEN tried
             ELSE IF IsRef(current, "dict", h)
             THEN IF part \in DOMAIN items(current, h) THEN Ok(items(current, h)[part])
                  ELSE Raise("KeyError")
             ELSE IF IsRef(current, "obj", h) /\ part \in DOMAIN items(current, h)
             THEN Ok(items(current, h)[part])
             ELSE Raise("AttributeError")

\* for part in parts: current = _get_next(current, part)
RECURSIVE Walk(_, _, _)
Walk(h, current, parts) ==
    IF parts = <<>> THEN Ok(current)
    ELSE LET r == get_next(h, current, Head(parts))
         IN  IF r.exc # "" THEN r ELSE Walk(h, r.v, Tail(parts))

\* get(obj, path, default)
get(h, obj, path, default) ==
    LET r == Walk(h, obj, normalize_path(path))
    IN  IF r.exc = "" THEN r
        ELSE IF GetCatches(r.exc) THEN Ok(default)
        ELSE r

\* an assignment that succeeds and stores nothing
StoreLost(h, parent, key, value) == h

\* parent[key] = value, setattr(parent, key, value)
Store(h, parent, key, value) ==
    [h EXCEPT ![parent.s[1]] = Container(@.k, (key :> value) @@ @.items)]

\* parent[index] = value for an integer index
Assign(h, parent, key, value) ==
    IF IsRef(parent, "list", h)
    THEN IF key \in DOMAIN items(parent, h)
         THEN [exc |-> "", h |-> Store(h, parent, key, value)]
         ELSE [exc |-> "IndexError", h |-> h]
    ELSE IF IsRef(parent, "dict", h)
    THEN [exc |-> "", h |-> Store(h, parent, key, value)]
    ELSE [exc |-> "TypeError", h |-> h]

\* _set_last(parent, part, value)
set_last(h, parent, part, value) ==
    IF part.t = "int" THEN Assign(h, parent, part, value)
    ELSE LET tried == IF IsDigit(part.s) THEN Assign(h, parent, IntVal(DropZeros(part.s)), value)
                      ELSE [exc |-> "ValueError", h |-> h]
         IN  IF ~IndexFallsBack(tried.exc) THEN tried
             ELSE IF IsRef(parent, "dict", h) \/ IsRef(parent, "obj", h)
             THEN [exc |-> "", h |-> Store(h, parent, part, value)]
             ELSE [exc |-> "AttributeError", h |-> h]

\* set(obj, path, value): every exception it can meet is caught
set(h, obj, path, value) ==
    LET parts == normalize_path(path)
        parent == Walk(h, obj, Front(parts))
        done == set_last(h, parent.v, Last(parts), value)
    IN  IF parts = <<>> THEN [ret |-> FALSE, h |-> h]
        ELSE IF parent.exc # "" THEN [ret |-> FALSE, h |-> h]
        ELSE [ret |-> done.exc = "", h |-> done.h]

\* the host builds its objects; pr remembers the last call: its segments,
\* the exception that left it, what get returned, whether set succeeded
Load(h) ==
    /\ heap' = h
    /\ pr' = NoPr
    /\ UNCHANGED <<managerVars, parserVars, poolVars>>

\* PathResolver.get(root, path, default)
PathGet(path, default) ==
    /\ heap # NoHeap
    /\ LET r == get(heap, Root, path, default)
       IN  pr' = [kind |-> "get", exc |-> r.exc, ret |-> <<r.v>>, ok |-> FALSE,
                  parts |-> normalize_path(path), val |-> <<>>]
    /\ UNCHANGED heap
    /\ UNCHANGED <<managerVars, parserVars, poolVars>>

\* PathResolver.set(root, path, value)
PathSet(path, value) ==
    /\ heap # NoHeap
    /\ LET r == set(heap, Root, path, value)
       IN  /\ heap' = r.h
           /\ pr' = [kind |-> "set", exc |-> "", ret |-> <<>>, ok |-> r.ret,
                      parts |-> normalize_path(path), val |-> <<value>>]
    /\ UNCHANGED <<managerVars, parserVars, poolVars>>

NextPath ==
    \/ \E h \in Roots : Load(h)
    \/ \E cs \in DottedPaths : PathGet(Dotted(cs), Default)
    \/ \E segs \in ListPaths : PathGet(Listed(segs), Default)
    \/ \E cs \in DottedPaths, value \in NewVals : PathSet(Dotted(cs), value)
    \/ \E segs \in ListPaths, value \in NewVals : PathSet(Listed(segs), value)

SpecPath == Init /\ [][NextPath]_vars

-----------------------------------------------------------------------------
(* Properties *)

InCycle == ~Idle /\ stack[1].k = "cycle"
AtCycleReturn ==
    /\ ~Idle /\ Top.k = "cycle" /\ Top.phase = "b"
    /\ Top.i > Len(Top.tasks) /\ ~Due(Top.T)
AtTriggerReturn == ~Idle /\ Top.k = "trigger" /\ Top.i > Len(Monitors(Top))
TaskReturns == InCb /\ Top.role = "task" /\ ev'.kind = "return"

FnsOf(log) == [j \in 1 .. Len(log) |-> log[j][1]]
KeptOf(log) == LET Falsy(x) == ~x[2] IN FnsOf(SelectSeq(log, Falsy))
Persistent(ms) == LET Stays(m) == m[2] IN SelectSeq(ms, Stays)
PendingTimes == DOMAIN scheduled_tasks \cup Range(scheduled_times)
IsSuffix(s, t) == Len(s) <= Len(t) /\ SubSeq(t, Len(t) - Len(s) + 1, Len(t)) = s

C2_DuePostcondition ==
    [][ /\ ev'.kind = "cycle_done" => \A k \in PendingTimes' : k > Top.T
        /\ (ev'.kind = "invoke" /\ ev'.role = "task") => Top.ts <= Top.T
        /\ \A k \in DOMAIN scheduled_tasks :
                  (Idle \/ (InCycle /\ k > stack[1].T)) =>
                      /\ k \in DOMAIN scheduled_tasks'
                      /\ IsPrefix(scheduled_tasks[k], scheduled_tasks'[k])
        /\ \A f \in Fns :
              Pending(f)' < Pending(f) =>
                  \/ TaskReturns /\ Top.fn = f
                  \/ ev'.kind = "raise"
      ]_vars

\* run_cycle(MaxTime) has returned and a re-scheduled task waits beyond it
C2_Witness ==
    /\ ev.kind = "cycle_done" /\ ev.ret = MaxTime
    /\ \E k \in DOMAIN scheduled_tasks : k > MaxTime

\* C3: when callables re-schedule only through their return value, every
\* run_cycle call comes to an end.
C3_Terminates == (~Idle) ~> Idle

\* a call has ended in which a task ran at time 0 and again at its clamped time
C3_Witness ==
    /\ Idle /\ ev.kind = "cycle_done"
    /\ \E k \in DOMAIN scheduled_tasks : k >= MaxTime + Step

\* C4: a one-shot subscription is invoked at most once: each subscribe call
\* with persistent = False pays for one invocation of that monitor.
C4_OneShotOnce == \A m \in DOMAIN credit : credit[m] >= 0

\* C5: when trigger_event(e) returns normally, the list of e holds the
\* persistent monitors it had when the call started, in their order, followed
\* by the monitors subscribed during the call.
C5_ListAfterTrigger ==
    AtTriggerReturn =>
        event_listeners[Top.e] = Persistent(Top.start) \o Top.added

C7_KeptOnly ==
    AtCycleReturn =>
        /\ IsPrefix(Top.start, FnsOf(Top.log))
        /\ acts = KeptOf(Top.log)

\* C7 amended: from the end of the actions phase to the return of run_cycle
\* the list is the actions that returned a falsy value, in their order,
\* followed by the actions that scheduled tasks appended during the tasks
\* phase; every action of the list at the start of the call was invoked.
C7_KeptThenAdded ==
    (InCycle /\ stack[1].phase = "b") =>
        /\ IsPrefix(stack[1].start, FnsOf(stack[1].log))
        /\ acts = KeptOf(stack[1].log) \o stack[1].added

\* run_cycle is returning after an action was invoked and a task added one
C7_Witness == AtCycleReturn /\ Top.log # <<>> /\ Top.added # <<>>

\* C8: within one run_cycle every action is invoked before any scheduled
\* task: actions are invoked only in the actions phase, tasks only in the
\* tasks phase, and the tasks phase is never left for the actions phase; a
\* task an action scheduled at a time <= T has been run when the call returns,
\* while an action a task added has not been invoked by this call.
C8_ActionsBeforeTasks ==
    [][ /\ (ev'.kind = "invoke" /\ ev'.role = "act") =>
              Top.k = "cycle" /\ Top.phase = "a" /\ Top.ts = -1
        /\ (ev'.kind = "invoke" /\ ev'.role = "task") =>
              Top.k = "cycle" /\ Top.phase = "b"
        /\ (InCycle /\ stack[1].phase = "b" /\ stack' # <<>>) =>
              /\ stack'[1].phase = "b"
              /\ stack'[1].log = stack[1].log
        /\ ev'.kind = "cycle_done" =>
              (Top.asched => \A k \in PendingTimes' : k > Top.T)
      ]_vars

\* run_cycle is returning: an action scheduled a due task, a task added an action
C8_Witness == AtCycleReturn /\ Top.asched /\ Top.added # <<>>

\* C9: an exception raised by a callable ends the manager's call at once: no
\* frame of the manager remains, and acts, listeners, heap and buckets are
\* left as they were when it was raised.
C9_FailLoud ==
    [][ ev'.kind = "raise" =>
            /\ stack' = <<>>
            /\ acts' = acts
            /\ event_listeners' = event_listeners
            /\ scheduled_times' = scheduled_times
            /\ scheduled_tasks' = scheduled_tasks
      ]_vars

\* an exception ended a call that still had callables to invoke
C9_Witness == ev.kind = "raise" /\ ev.ret > 0 /\ Idle

\* C10: no name is both a command and an alias.
C10_Disjoint == DOMAIN aliases \cap commands = {}

\* C11: every alias maps directly to a name that is a registered command, and
\* a successful remove_command(name) leaves no alias whose target is name.
C11_NoDanglingAlias ==
    /\ \A a \in DOMAIN aliases : aliases[a] \in commands
    /\ (op.kind = "remove_command" /\ outcome = "ok") =>
          /\ op.a \notin commands
          /\ \A a \in DOMAIN aliases : aliases[a] # op.a

\* remove_command("help") has just taken the aliases of help with it
C11_Witness ==
    /\ op.kind = "remove_command" /\ op.a = "help" /\ outcome = "ok"
    /\ "?" \notin DOMAIN aliases /\ "r" \in DOMAIN aliases

\* C12: the built-in commands help, raw, alias and unalias are registered in
\* every reachable state of the registry.
C12_BuiltinsPresent == Builtins \subseteq commands

\* C13: an alias operation whose target is not a command or whose name is an
\* alias or a command, an unalias of a name that is no alias, and a
\* remove_command of an unregistered name each raise an error and leave the
\* commands and the alias table as they were.
C13_FailedMutationNoChange ==
    [][ LET refused ==
              \/ op'.kind = "alias" /\ (\/ op'.c \notin commands
                                        \/ op'.a \in DOMAIN aliases
                                        \/ op'.a \in commands)
              \/ op'.kind = "unalias" /\ op'.a \notin DOMAIN aliases
              \/ op'.kind = "remove_command" /\ op'.a \notin commands
        IN  refused =>
              /\ outcome' \in {"ValueError", "NotACommand"}
              /\ commands' = commands
              /\ aliases' = aliases
              /\ info' = info
      ]_vars

\* an alias was refused although its target is a registered command
C13_Witness ==
    /\ op.kind = "alias" /\ outcome = "ValueError"
    /\ op.c \in commands /\ op.a \in DOMAIN aliases

\* C15: resolve_command returns the stored target of an alias after one
\* lookup, even when that target is itself an alias name, and returns a name
\* that is no alias unchanged.
C15_SingleHop ==
    op.kind = "resolve" =>
        /\ op.a \in DOMAIN aliases => op.ret = aliases[op.a]
        /\ op.a \notin DOMAIN aliases => op.ret = op.a

\* an alias was resolved to its target, which is itself the name of an alias
C15_Witness ==
    /\ op.kind = "resolve" /\ op.a \in DOMAIN aliases
    /\ op.ret \in DOMAIN aliases /\ op.ret # op.a

-----------------------------------------------------------------------------
(* What a parse call is expected to do with its tokens, read off the       *)
(* tokens and the stored record of the command                              *)

\* the step is a parse call; Looked: it found its command
ParseStep == res'.kind # "none" /\ res' # res
Looked == ParseStep /\ res'.kind \notin {"empty", "NotACommand"}
\* the step is a call of add_command
AddStep == op'.kind = "add_command" /\ res' = res /\ line' = line

MapIdx(args) == {j \in 1 .. Len(args) : args[j].d}
KeyAt(args, j) == Str(args[j].k)
GivenKeys(args) == {KeyAt(args, j) : j \in MapIdx(args)}
DupKey(args) == \E i, j \in MapIdx(args) : i < j /\ KeyAt(args, i) = KeyAt(args, j)
Declared(pi, name) == \E j \in 1 .. Len(pi.params) : pi.params[j].name = name
UnknownAt(pi, args, j) == args[j].d /\ ~Declared(pi, KeyAt(args, j))
BadKwAt(pi, args, j) ==
    /\ args[j].d /\ Declared(pi, KeyAt(args, j))
    /\ ProcessValue(ParamOf(pi, KeyAt(args, j)).type, args[j].v).exc # ""
Plains(args) ==
    LET IsPlain(tk) == ~tk.d
    IN  [j \in 1 .. Len(SelectSeq(args, IsPlain)) |-> SelectSeq(args, IsPlain)[j].v]
Able(pi, args) ==
    LET Open(pp) == pp.name \notin GivenKeys(args) /\ ~pp.keyword_only
    IN  [j \in 1 .. Len(SelectSeq(pi.params, Open)) |-> SelectSeq(pi.params, Open)[j].name]
Fits(pi, args) ==
    IF Len(Plains(args)) < Len(Able(pi, args)) THEN Len(Plains(args)) ELSE Len(Able(pi, args))
BadPosAt(pi, args, i) ==
    /\ i <= Fits(pi, args)
    /\ ProcessValue(ParamOf(pi, Able(pi, args)[i]).type, Plains(args)[i]).exc # ""
Surplus(pi, args) == Len(Plains(args)) > Len(Able(pi, args))
BoundNames(pi, args) ==
    {n \in GivenKeys(args) : Declared(pi, n)}
        \cup {Able(pi, args)[i] : i \in 1 .. Fits(pi, args)}
MissingReq(pi, args) ==
    \E j \in 1 .. Len(pi.params) :
        ~pi.params[j].optional /\ pi.params[j].name \notin BoundNames(pi, args)
BindingClean(pi, args) ==
    /\ ~DupKey(args)
    /\ \A j \in 1 .. Len(args) : ~BadKwAt(pi, args, j)
    /\ (\E j \in 1 .. Len(args) : UnknownAt(pi, args, j)) => pi.accepts_kwargs
    /\ \A i \in 1 .. Fits(pi, args) : ~BadPosAt(pi, args, i)
    /\ Surplus(pi, args) => pi.accepts_args
ConversionErrors == {"TypeError", "AttributeError"}

\* r is what type inference makes of the value v
Inferred(v, r) ==
    IF v.t # "str" THEN r = v
    ELSE IF IsDigit(v.s) THEN r.t = "int"
    ELSE IF "." \in Range(v.s) /\ IsDigit(WithoutDot(v.s)) THEN r.t = "float"
    ELSE IF LowerAll(v.s) \in {TrueWord, FalseWord}
    THEN r = BoolVal(LowerAll(v.s) = TrueWord)
    ELSE r = v

\* C14: add_command on a registered name fails and changes nothing; the
\* stored record (function, parameter schema, short and full help) of a
\* registered command is the same after every step that leaves it registered,
\* and a command only leaves the registry by remove_command of its name.
C14_ImmutableRegistration ==
    [][ /\ (AddStep /\ op'.a \in commands) =>
              /\ outcome' = "ValueError"
              /\ commands' = commands /\ info' = info
        /\ \A n \in commands :
              IF n \in commands'
              THEN info'[n] = info[n]
              ELSE op'.kind = "remove_command" /\ op'.a = n
        /\ DOMAIN info' = commands'
      ]_vars

\* a second add_command of go was refused after go had been called by parse
C14_Witness ==
    /\ op.kind = "add_command" /\ op.a = "go" /\ outcome = "ValueError"
    /\ res.kind = "called" /\ res.cmd = "go"

\* C16: a parse call on an input that is not blank raises NotACommand and
\* calls no function when the input yields no token, when the first token is
\* a key=value mapping, and when the first token resolves to a name that is
\* not registered.
C16_NotACommand ==
    [][ ( /\ ParseStep
          /\ Strip(res'.input) # <<>>
          /\ \/ res'.tokens = <<>>
             \/ res'.tokens # <<>> /\ res'.tokens[1].d
             \/ /\ res'.tokens # <<>> /\ ~res'.tokens[1].d
                /\ res'.tokens[1].v.t = "str"
                /\ ResolveIn(aliases, Str(res'.tokens[1].v.s)) \notin commands )
        => (res'.kind = "NotACommand" /\ res'.func = "")
      ]_vars

C18_UndeclaredKeyword ==
    [][ Looked =>
          LET pi == info[res'.cmd]
              args == Tail(res'.tokens)
          IN  /\ DupKey(args) => res'.kind = "ParamError"
              /\ ((\E j \in 1 .. Len(args) : UnknownAt(pi, args, j)) /\ ~pi.accepts_kwargs)
                    => res'.kind = "ParamError"
              /\ res'.kind = "called" =>
                    \A j \in 1 .. Len(args) :
                        UnknownAt(pi, args, j) => res'.kwargs[KeyAt(args, j)] = args[j].v
      ]_vars

\* C18 amended: a repeated key fails with ParamError; an undeclared key of a
\* command without variadic keywords makes parse fail without calling the
\* function, with ParamError unless a declared key given before it fails its
\* type conversion, which is then the error raised; an undeclared key of a
\* command with variadic keywords is passed with its raw value.
C18_UndeclaredKeywordInOrder ==
    [][ Looked =>
          LET pi == info[res'.cmd]
              args == Tail(res'.tokens)
              unknown == {j \in 1 .. Len(args) : UnknownAt(pi, args, j)}
          IN  /\ DupKey(args) => res'.kind = "ParamError"
              /\ (unknown # {} /\ ~pi.accepts_kwargs /\ ~DupKey(args)) =>
                    IF \E i \in 1 .. Len(args) :
                          BadKwAt(pi, args, i) /\ \A u \in unknown : i < u
                    THEN res'.kind \in ConversionErrors
                    ELSE res'.kind = "ParamError"
              /\ res'.kind = "called" =>
                    \A j \in unknown : res'.kwargs[KeyAt(args, j)] = args[j].v
      ]_vars

\* an undeclared key went to the variadic keywords with its raw text
C18_Witness ==
    /\ res.kind = "called" /\ res.func = "list"
    /\ "t" \in DOMAIN res.kwargs /\ res.kwargs["t"] = StrVal(<<"3">>)

\* C19 as stated: positional tokens beyond the positionable parameters fail
\* with ParamError when the command takes no variadic positionals, and are
\* passed in order after type inference when it does.
C19_SurplusPositional ==
    [][ Looked =>
          LET pi == info[res'.cmd]
              args == Tail(res'.tokens)
              n == Len(Able(pi, args))
          IN  /\ (Surplus(pi, args) /\ ~pi.accepts_args) => res'.kind = "ParamError"
              /\ res'.kind = "called" =>
                    /\ Len(res'.args) = Len(Plains(args)) - Fits(pi, args)
                    /\ \A i \in 1 .. Len(res'.args) :
                          Inferred(Plains(args)[n + i], res'.args[i])
      ]_vars

\* C19 amended: positional tokens beyond the positionable parameters make
\* parse fail without calling the function when the command takes no variadic
\* positionals, with ParamError unless a keyword value or an earlier
\* positional token fails its type conversion first; they are passed in order
\* after type inference when it does.
C19_SurplusPositionalInOrder ==
    [][ Looked =>
          LET pi == info[res'.cmd]
              args == Tail(res'.tokens)
              n == Len(Able(pi, args))
          IN  /\ (Surplus(pi, args) /\ ~pi.accepts_args) =>
                    /\ res'.kind \in {"ParamError"} \cup ConversionErrors
                    /\ ( /\ \A j \in 1 .. Len(args) : ~BadKwAt(pi, args, j)
                         /\ \A i \in 1 .. n : ~BadPosAt(pi, args, i) )
                       => res'.kind = "ParamError"
              /\ res'.kind = "called" =>
                    /\ Len(res'.args) = Len(Plains(args)) - Fits(pi, args)
                    /\ \A i \in 1 .. Len(res'.args) :
                          Inferred(Plains(args)[n + i], res'.args[i])
      ]_vars

\* 'go 3 1.' for list(n = 0, *args): 3 is bound to n, the surplus 1. is passed as a float
C19_Witness ==
    /\ res.kind = "called" /\ res.func = "list"
    /\ res.input = <<"g", "o", " ", "3", " ", "1", ".">>
    /\ res.kwargs = ("n" :> IntVal(<<"3">>))
    /\ res.args = <<FloatVal(<<"1", ".", "0">>)>>

\* C20: the function is only called with every required parameter bound;
\* when keyword and positional binding raise nothing, parse fails with
\* ParamError if a required parameter is unbound and calls the function
\* otherwise, whatever optional parameters and variadic buckets are left out.
C20_MissingRequired ==
    [][ Looked =>
          LET pi == info[res'.cmd]
              args == Tail(res'.tokens)
          IN  /\ res'.kind = "called" =>
                    \A j \in 1 .. Len(pi.params) :
                        ~pi.params[j].optional => pi.params[j].name \in DOMAIN res'.kwargs
              /\ (BindingClean(pi, args) /\ MissingReq(pi, args)) => res'.kind = "ParamError"
              /\ (BindingClean(pi, args) /\ ~MissingReq(pi, args)) => res'.kind = "called"
      ]_vars

\* 'go t=3' for greet(n, t = 1) failed: n is missing
C20_Witness ==
    /\ res.kind = "ParamError" /\ res.cmd = "go"
    /\ res.input = <<"g", "o", " ", "t", "=", "3">>
    /\ "go" \in commands /\ info["go"].func = "greet"

-----------------------------------------------------------------------------
(* What the tokenizer is expected to make of a text, read off the text      *)

Quotes == {"\"", "'"}
Specials == {" ", "=", "$", "\\"} \cup Quotes
IsWord(cs) == Range(cs) \cap Specials = {}
IsWords(cs) == Range(cs) \cap (Specials \ {" "}) = {}
\* cs is key= for a key without special characters
IsKeyEq(cs) == Len(cs) > 1 /\ Last(cs) = "=" /\ IsWord(Front(cs))
\* the index of the first whitespace of cs at or after i, or Len(cs) + 1
FirstSpace(cs, i) ==
    IF \E j \in i .. Len(cs) : cs[j] = " "
    THEN CHOOSE j \in i .. Len(cs) : cs[j] = " " /\ \A k \in i .. j - 1 : cs[k] # " "
    ELSE Len(cs) + 1
\* the index after the last whitespace of cs, or 1
WordStart(cs) ==
    IF \E j \in 1 .. Len(cs) : cs[j] = " "
    THEN 1 + CHOOSE j \in 1 .. Len(cs) : cs[j] = " " /\ \A k \in j + 1 .. Len(cs) : cs[k] # " "
    ELSE 1
\* what a name without dots and digits stands for
Expected(name) ==
    IF Str(name) \in DOMAIN Namespace THEN Namespace[Str(name)] ELSE StrVal(<<"$">> \o name)
\* the token for a value, given what precedes it in its word: nothing, or key=
TokenFor(word, v) == IF word = <<>> THEN Plain(v) ELSE Mapping(Front(word), v)
Tokenized == res.kind = "tokens"

\* C25: a quote that opens at the start of a word, or directly after key=,
\* and is closed by the next quote of the same kind, with no backslash in
\* between, yields one token whose text is exactly what stands between the
\* quotes (whitespace, '$', '=' and the other quote included), a mapping
\* under the key when it follows key=; what follows the closing quote is
\* tokenized as a new text.
C25_Quoting ==
    Tokenized =>
        \A i, j \in 1 .. Len(res.input) :
            LET cs == res.input
                k == WordStart(SubSeq(cs, 1, i - 1))
                head == SubSeq(cs, 1, k - 1)
                word == SubSeq(cs, k, i - 1)
                body == SubSeq(cs, i + 1, j - 1)
            IN  ( /\ i < j /\ cs[i] \in Quotes /\ cs[j] = cs[i]
                  /\ Range(body) \cap {cs[i], "\\"} = {}
                  /\ IsWords(head)
                  /\ word = <<>> \/ IsKeyEq(word) )
                => res.tokens = Tokenize(head) \o <<TokenFor(word, StrVal(body))>>
                                \o Tokenize(SubSeq(cs, j + 1, Len(cs)))

\* alias a="x y" b=2 gives alias, {a: "x y"}, {b: "2"}
C25_Witness ==
    /\ Tokenized
    /\ res.input \in Samples
    /\ res.tokens = << Plain(StrVal(<<"a", "l", "i", "a", "s">>)),
                       Mapping(<<"a">>, StrVal(<<"x", " ", "y">>)),
                       Mapping(<<"b">>, StrVal(<<"2">>)) >>

\* C26: a text of letters and '=' signs whose first '=' follows a letter and
\* is followed by at least one character yields exactly one mapping: the key
\* is the text before the first '=' and the value all the text after it.
C26_KeyValueCapture ==
    Tokenized =>
        LET cs == res.input
            p == CHOOSE j \in 1 .. Len(cs) : cs[j] = "=" /\ \A k \in 1 .. j - 1 : cs[k] # "="
        IN  ( /\ Range(cs) \cap (Specials \ {"="}) = {}
              /\ "=" \in Range(cs)
              /\ 1 < p /\ p < Len(cs) )
            => res.tokens = <<Mapping(SubSeq(cs, 1, p - 1), StrVal(SubSeq(cs, p + 1, Len(cs))))>>

\* the variable-free parts of C27: a '$' after other characters of a word, or
\* after characters of a value, stays in the text of the token
DollarInside ==
    \A i \in 1 .. Len(res.input) :
        LET cs == res.input
            pre == SubSeq(cs, 1, i - 1)
            name == SubSeq(cs, i + 1, Len(cs))
            p == CHOOSE j \in 1 .. Len(pre) : pre[j] = "=" /\ \A k \in 1 .. j - 1 : pre[k] # "="
        IN  (cs[i] = "$" /\ IsWord(name)) =>
                /\ (pre # <<>> /\ IsWord(pre)) => res.tokens = <<Plain(StrVal(cs))>>
                /\ ( /\ "=" \in Range(pre) /\ IsKeyEq(SubSeq(pre, 1, p)) /\ p < Len(pre)
                     /\ IsWord(SubSeq(pre, p + 1, Len(pre))) )
                   => res.tokens = <<Mapping(SubSeq(pre, 1, p - 1),
                                             StrVal(SubSeq(cs, p + 1, Len(cs))))>>
\* a '$' at the start of the text is a variable
DollarFirst ==
    (res.input # <<>> /\ Head(res.input) = "$" /\ IsWord(Tail(res.input)))
        => res.tokens = <<Plain(Expected(Tail(res.input)))>>

C29_UnterminatedQuote ==
    Tokenized =>
        \A i \in 1 .. Len(res.input) :
            LET cs == res.input
                pre == SubSeq(cs, 1, i - 1)
                rest == SubSeq(cs, i + 1, Len(cs))
            IN  ( /\ cs[i] \in Quotes
                  /\ IsWords(pre) /\ (pre = <<>> \/ Last(pre) = " ")
                  /\ Range(rest) \cap {cs[i], "\\"} = {} )
                => res.tokens = Tokenize(pre)
                                \o (IF rest # <<>> THEN <<Plain(StrVal(rest))>> ELSE <<>>)

\* n "w  with a trailing blank: the tokens are n and "w "
C29_Witness ==
    /\ Tokenized
    /\ res.input = <<"n", " ", "\"", "w", " ">>
    /\ res.tokens = <<Plain(StrVal(<<"n">>)), Plain(StrVal(<<"w", " ">>))>>

\* the character an escape stands for
Esc(ch) == IF ch = "n" THEN "\n" ELSE IF ch = "t" THEN "\t" ELSE ch
\* cs is made of ordinary characters and escapes only
RECURSIVE Bare(_)
Bare(cs) ==
    IF cs = <<>> THEN TRUE
    ELSE IF Head(cs) = "\\" THEN Len(cs) = 1 \/ Bare(SubSeq(cs, 3, Len(cs)))
    ELSE Head(cs) \notin Specials /\ Bare(Tail(cs))
\* cs does not end in the middle of an escape
RECURSIVE Complete(_)
Complete(cs) ==
    IF cs = <<>> THEN TRUE
    ELSE IF Head(cs) = "\\" THEN Len(cs) > 1 /\ Complete(SubSeq(cs, 3, Len(cs)))
    ELSE Complete(Tail(cs))
\* the text cs stands for: an escape gives its character, the backslash none
RECURSIVE Decode(_)
Decode(cs) ==
    IF cs = <<>> THEN <<>>
    ELSE IF Head(cs) = "\\"
    THEN IF Len(cs) = 1 THEN <<>> ELSE <<Esc(cs[2])>> \o Decode(SubSeq(cs, 3, Len(cs)))
    ELSE <<Head(cs)>> \o Decode(Tail(cs))
TextToken(cs) == IF cs = <<>> THEN <<>> ELSE <<Plain(StrVal(cs))>>
\* no token has a backslash in its text or its key
NoBackslash ==
    \A j \in 1 .. Len(res.tokens) :
        "\\" \notin Range(res.tokens[j].v.s) \cup Range(res.tokens[j].k)
\* outside quotes, in an open quote and in a closed one, a text of ordinary
\* characters and escapes is one token whose text is the decoded text
EscapedIsOrdinary ==
    LET cs == res.input IN
    /\ Bare(cs) => res.tokens = TextToken(Decode(cs))
    /\ (cs # <<>> /\ Head(cs) \in Quotes /\ Bare(Tail(cs)))
          => res.tokens = TextToken(Decode(Tail(cs)))
    /\ ( /\ Len(cs) > 1 /\ Head(cs) \in Quotes /\ Last(cs) = Head(cs)
         /\ Bare(SubSeq(cs, 2, Len(cs) - 1)) /\ Complete(SubSeq(cs, 2, Len(cs) - 1)) )
          => res.tokens = <<Plain(StrVal(Decode(SubSeq(cs, 2, Len(cs) - 1))))>>
\* no backslash of cs is itself escaped by a backslash before it
NoDouble(cs) == \A j \in 1 .. Len(cs) - 1 : ~(cs[j] = "\\" /\ cs[j + 1] = "\\")

\* C30 as stated: wherever it stands, the character after an unescaped
\* backslash is taken into the token as an ordinary character (n as newline,
\* t as tab) and the backslash itself gives no character.
C30_EscapeFirst ==
    Tokenized =>
        /\ EscapedIsOrdinary
        /\ NoDouble(res.input) => NoBackslash

\* C30 amended: the same, except inside the name of a variable, which runs to
\* the next whitespace and takes a backslash as a character of the name.
C30_EscapeFirstOutsideNames ==
    Tokenized =>
        /\ EscapedIsOrdinary
        /\ (NoDouble(res.input) /\ "$" \notin Range(res.input)) => NoBackslash

\* \$\n is the one token of a dollar sign and a newline
C30_Witness ==
    /\ Tokenized
    /\ res.input = <<"\\", "$", "\\", "n">>
    /\ res.tokens = <<Plain(StrVal(<<"$", "\n">>))>>

-----------------------------------------------------------------------------
(* Coercion, dispatch and the built-in commands *)

\* r is what coercion to the declared type makes of the value v: v itself
\* when it has the type, for a boolean whether its text is one of true, 1,
\* yes, y, and otherwise a value of the type
CoercedTo(type, v, r) ==
    IF v.t = type \/ (v.t = "bool" /\ type = "int") THEN r = v
    ELSE IF type = "bool" THEN r = BoolVal(v.t = "str" /\ LowerAll(v.s) \in Truish)
    ELSE r.t = type

\* C21: a parse call that found its command ends in a call, a ParamError or
\* a TypeError (the type mismatch error), never in another error; and when
\* it calls, every value bound to a declared parameter is the coerced value:
\* unchanged if already of the type, for a boolean true for true/1/yes/y and
\* false for anything else.
C21_TypeCoercion ==
    [][ Looked =>
          LET pi == info[res'.cmd]
              args == Tail(res'.tokens)
          IN  /\ res'.kind \in {"called", "ParamError", "TypeError"}
              /\ res'.kind = "called" =>
                    /\ \A j \in MapIdx(args) :
                          Declared(pi, KeyAt(args, j)) =>
                              CoercedTo(ParamOf(pi, KeyAt(args, j)).type, args[j].v,
                                        res'.kwargs[KeyAt(args, j)])
                    /\ \A i \in 1 .. Fits(pi, args) :
                          CoercedTo(ParamOf(pi, Able(pi, args)[i]).type, Plains(args)[i],
                                    res'.kwargs[Able(pi, args)[i]])
      ]_vars

\* C22: a parse call on an input that is not blank either raises an error
\* and calls no function, or calls the function of the resolved command once,
\* with the surplus positional values and with the bound parameters merged
\* with the undeclared keywords; it calls exactly when the command is found
\* and the binding raises nothing.
C22_Dispatch ==
    [][ (ParseStep /\ Strip(res'.input) # <<>>) =>
          /\ res'.kind # "empty"
          /\ res'.kind # "called" => (res'.func = "" /\ res'.args = <<>> /\ res'.kwargs = <<>>)
          /\ Looked =>
                LET pi == info[res'.cmd]
                    args == Tail(res'.tokens)
                IN  /\ res'.kind = "called" <=> (BindingClean(pi, args) /\ ~MissingReq(pi, args))
                    /\ res'.kind = "called" =>
                          /\ res'.func = pi.func
                          /\ Len(res'.args) = Len(Plains(args)) - Fits(pi, args)
                          /\ DOMAIN res'.kwargs = BoundNames(pi, args) \cup GivenKeys(args)
      ]_vars

\* C23: raw (or its alias r) followed by plain tokens returns the texts of
\* the tokens joined by single spaces.
C23_RawRejoins ==
    [][ ( /\ ParseStep
          /\ res'.tokens # <<>>
          /\ \A j \in 1 .. Len(res'.tokens) : ~res'.tokens[j].d /\ res'.tokens[j].v.t = "str"
          /\ ResolveIn(aliases, Str(res'.tokens[1].v.s)) = "raw"
          /\ "raw" \in commands )
        => /\ res'.kind = "called" /\ res'.fexc = ""
           /\ res'.ret = JoinWords([j \in 1 .. Len(res'.tokens) - 1 |-> res'.tokens[j + 1].v.s])
      ]_vars

\* C24: help with the name of a command prints the full help text stored
\* when the command was registered, and help alone lists every command with
\* its stored short help text.
C24_HelpRoundTrip ==
    [][ (ParseStep /\ res'.kind = "called" /\ res'.func = "_cmd_help" /\ res'.fexc = "") =>
          IF "command" \in DOMAIN res'.kwargs
          THEN res'.out = info[ResolveIn(aliases, Str(res'.kwargs["command"].s))].full_help
          ELSE {c \o " " \o info[c].short_help : c \in commands} \subseteq res'.listed
      ]_vars

-----------------------------------------------------------------------------
(* The scheduler's heap and buckets, the order of the tasks, and what an   *)
(* exception leaves behind                                                 *)

\* C34: each pending timestamp occurs exactly once in the heap, the heap
\* entries are the keys of the buckets, and no bucket is empty.
C34_HeapBuckets ==
    /\ \A i, j \in 1 .. Len(scheduled_times) :
            i # j => scheduled_times[i] # scheduled_times[j]
    /\ Range(scheduled_times) = DOMAIN scheduled_tasks
    /\ \A k \in DOMAIN scheduled_tasks : scheduled_tasks[k] # <<>>

\* run_cycle has returned and two tasks share the one pending timestamp
C34_Witness ==
    /\ Idle /\ ev.kind = "cycle_done"
    /\ Len(scheduled_times) = 1
    /\ \E k \in DOMAIN scheduled_tasks : Len(scheduled_tasks[k]) = 2

\* C35: when tasks re-schedule only through their return value, each bucket
\* popped in a run_cycle call is the one of the smallest pending timestamp,
\* a timestamp greater than that of the bucket popped before it in the call;
\* the tasks of the bucket are invoked one after the other in the order the
\* bucket held them; and each is passed the timestamp of the bucket.
C35_TaskOrder ==
    [][ /\ ev'.kind = "pop" =>
              LET t == scheduled_times[1]
              IN  /\ \A k \in DOMAIN scheduled_tasks : k >= t
                  /\ t > Top.ts
                  /\ stack'[1].ts = t
                  /\ stack'[1].tasks = scheduled_tasks[t]
                  /\ stack'[1].i = 1
        /\ (ev'.kind = "invoke" /\ ev'.role = "task") =>
              /\ stack'[Len(stack')].fn = Top.tasks[Top.i]
              /\ stack'[Len(stack')].arg = Top.ts
              /\ stack'[1] = stack[1]
        /\ TaskReturns =>
              /\ stack'[1].i = Caller.i + 1
              /\ stack'[1].tasks = Caller.tasks
              /\ stack'[1].ts = Caller.ts
      ]_vars

\* the second task of a bucket is running, called with a timestamp earlier
\* than the current time of the call
C35_Witness ==
    /\ InCb /\ Top.role = "task"
    /\ Caller.i = 2 /\ Top.arg = Caller.ts /\ Top.arg < Caller.T

\* C36: when an action raises during run_cycle the call ends at once in its
\* actions phase, before any bucket is popped; the list is left as it was,
\* the list of the start of the call followed by what callables appended, and
\* the actions that had returned before are still at their places in it.
C36_ActionRaises ==
    [][ (ev'.kind = "raise" /\ ev'.role = "act") =>
            /\ stack' = <<>>
            /\ stack[1].phase = "a" /\ stack[1].ts = -1
            /\ acts' = acts
            /\ IsPrefix(stack[1].start, acts')
            /\ IsPrefix(FnsOf(stack[1].log), acts')
      ]_vars

\* the second of two actions raised: the first, which had returned, is kept
C36_Witness ==
    /\ Idle /\ ev.kind = "raise" /\ ev.role = "act"
    /\ Len(acts) = 2 /\ ev.ret = 0

\* C37: popping a bucket removes its timestamp from the heap and its list
\* from the buckets and leaves the other buckets alone; when a task raises,
\* heap and buckets stay as they are at that moment (the re-scheduled tasks
\* included) and the tasks of the popped bucket that have not returned are
\* held nowhere any more.
C37_TaskRaises ==
    [][ /\ ev'.kind = "pop" =>
              LET t == scheduled_times[1]
              IN  /\ t \notin DOMAIN scheduled_tasks'
                  /\ t \notin Range(scheduled_times')
                  /\ \A k \in DOMAIN scheduled_tasks \ {t} :
                        /\ k \in DOMAIN scheduled_tasks'
                        /\ scheduled_tasks'[k] = scheduled_tasks[k]
        /\ (ev'.kind = "raise" /\ ev'.role = "task") =>
              /\ stack' = <<>>
              /\ scheduled_times' = scheduled_times
              /\ scheduled_tasks' = scheduled_tasks
              /\ \A f \in Fns : Pending(f)' = Queued(f)
      ]_vars

\* the first of the two tasks of a bucket raised: nothing is pending any more
C37_Witness ==
    /\ Idle /\ ev.kind = "raise" /\ ev.role = "task"
    /\ ev.ret = 1 /\ scheduled_tasks = <<>>

\* C38: when the actions phase of run_cycle ends, every action of the list,
\* the ones appended during the phase included, has been invoked once in list
\* order, and the new list is the actions that returned false.
C38_AppendedActionRuns ==
    [][ ev'.kind = "acts_done" =>
            /\ IsPrefix(Top.start, acts)
            /\ FnsOf(Top.log) = acts
            /\ acts' = KeptOf(Top.log)
      ]_vars

\* the actions phase has ended: an action appended during it was invoked,
\* returned false and is the only one kept
C38_Witness ==
    /\ InCycle /\ ev.kind = "acts_done"
    /\ Len(Top.start) = 1 /\ Len(Top.log) = 2
    /\ Top.log[1][2] /\ ~Top.log[2][2]
    /\ acts = <<Top.log[2][1]>>

-----------------------------------------------------------------------------
(* The pending key *)

\* C39: a key= at the start of a word that is followed by whitespace or by
\* the end of the text emits no token there; the next token that is
\* finalized after it is a mapping under that key, with the value the token
\* would have had and with the same tokens after it; when no token follows,
\* the key is dropped and the tokens are those of the text before it.
C39_PendingKey ==
    Tokenized =>
        \A i \in 1 .. Len(res.input) :
            LET cs == res.input
                k == WordStart(SubSeq(cs, 1, i - 1))
                key == SubSeq(cs, k, i - 1)
                rest == SubSeq(cs, i + 1, Len(cs))
                base == Tokenize(SubSeq(cs, 1, k - 1))
                next == Tokenize(LStrip(rest))
            IN  ( /\ cs[i] = "=" /\ key # <<>> /\ IsWord(key)
                  /\ IsWords(SubSeq(cs, 1, k - 1))
                  /\ rest = <<>> \/ Head(rest) = " " )
                => IF next = <<>> THEN res.tokens = base
                   ELSE /\ Len(res.tokens) = Len(base) + Len(next)
                        /\ SubSeq(res.tokens, 1, Len(base)) = base
                        /\ res.tokens[Len(base) + 1] = Mapping(key, next[1].v)
                        /\ SubSeq(res.tokens, Len(base) + 2, Len(res.tokens)) = Tail(next)

-----------------------------------------------------------------------------
(* IDPool *)

\* C33: as long as release_id is only called on IDs that are issued, every
\* release_id call ends without an exception and leaves the ID in free_ids,
\* and get_id never returns an ID that is issued.
C33_ReleaseReissued ==
    [][ /\ (pool'.kind = "release_id" /\ ~pool'.bad) =>
              /\ pool'.exc = ""
              /\ pool'.id \in free_ids'
        /\ (pool'.kind = "get_id" /\ ~pool'.bad) => pool'.id \notin issued
      ]_vars

-----------------------------------------------------------------------------
(* PathResolver *)

\* the value get returns when the segments resolve to r
Soft(r) == IF r.exc = "" THEN r.v ELSE Default

\* C31: get never raises: it returns the resolved value when every segment
\* resolves and the default when a segment fails to resolve.
C31_SoftGet ==
    pr.kind = "get" =>
        /\ pr.exc = ""
        /\ pr.ret = <<Soft(Walk(heap, Root, pr.parts))>>

\* looking seg up as a key of a mapping or as an attribute of an instance
KeyLookup(h, current, seg) ==
    IF /\ IsRef(current, "dict", h) \/ IsRef(current, "obj", h)
       /\ seg \in DOMAIN items(current, h)
    THEN items(current, h)[seg]
    ELSE Default

\* the last segment of the call is an all-digit string and the segments
\* before it resolve
DigitLast ==
    /\ pr.kind = "get"
    /\ pr.parts # <<>>
    /\ Last(pr.parts).t = "str"
    /\ IsDigit(Last(pr.parts).s)
    /\ Walk(heap, Root, Front(pr.parts)).exc = ""

\* the value the digit segment is resolved against, and the index attempt
DigitCurrent == Walk(heap, Root, Front(pr.parts)).v
DigitTried == Index(heap, DigitCurrent, IntVal(DropZeros(Last(pr.parts).s)))

\* C32 as the claim states it: whenever indexing by the digit segment raises,
\* the segment is looked up as a string key, so {"1": v} with "1" gives v.
C32_DigitFallback ==
    (DigitLast /\ DigitTried.exc # "") =>
        /\ pr.exc = ""
        /\ pr.ret = <<KeyLookup(heap, DigitCurrent, Last(pr.parts))>>

\* C32, amended: an all-digit string segment is first tried as an integer
\* index; the result of the indexing stands when it succeeds, the segment is
\* looked up as a string key or attribute only when the indexing raises
\* TypeError, and any other exception of the indexing (KeyError from a
\* mapping without the integer key, IndexError) makes get return the default,
\* so get on {"1": v} with segment "1" returns the default.
C32_DigitFallbackTypeError ==
    DigitLast =>
        /\ pr.exc = ""
        /\ pr.ret = << IF DigitTried.exc = "" THEN DigitTried.v
                       ELSE IF DigitTried.exc = "TypeError"
                       THEN KeyLookup(heap, DigitCurrent, Last(pr.parts))
                       ELSE Default >>

\* get was called with "1" on a mapping that has "1" only as a string key
C32_Witness ==
    /\ DigitLast
    /\ pr.parts = <<S1>>
    /\ IsRef(Root, "dict", heap)
    /\ S1 \in DOMAIN items(Root, heap)
    /\ K1 \notin DOMAIN items(Root, heap)
    /\ pr.ret = <<Default>>

\* the key a segment reads or writes in the container current
KeyUsed(h, current, part) ==
    IF /\ part.t = "str"
       /\ IsDigit(part.s)
       /\ IsRef(current, "list", h) \/ IsRef(current, "dict", h)
    THEN IntVal(DropZeros(part.s))
    ELSE part

\* the slots (container, key) read while parts are resolved from current
RECURSIVE SlotsRead(_, _, _)
SlotsRead(h, current, parts) ==
    IF parts = <<>> \/ get_next(h, current, Head(parts)).exc # "" THEN {}
    ELSE (IF current.t = "ref" THEN {<<current.s[1], KeyUsed(h, current, Head(parts))>>} ELSE {})
         \cup SlotsRead(h, get_next(h, current, Head(parts)).v, Tail(parts))

\* the slot a successful set with these segments writes
SlotWritten(h, parts) ==
    LET parent == Walk(h, Root, Front(parts)).v
    IN  <<parent.s[1], KeyUsed(h, parent, Last(parts))>>

\* C40 as the claim states it: after set returned true, get with the same
\* path returns the value; after set returned false the root is unchanged.
C40_RoundTrip ==
    [][ pr'.kind = "set" =>
          IF pr'.ok
          THEN get(heap', Root, Listed(pr'.parts), Default) = Ok(pr'.val[1])
          ELSE heap' = heap
      ]_vars

\* C40, amended: after set returned true, get with the same path returns the
\* value, provided the slot set writes is not one of the slots read while the
\* segments before the last are resolved (no container on the path is reached
\* again through the slot that is overwritten); after set returned false the
\* root is unchanged, and set raises nothing.
C40_RoundTripApart ==
    [][ pr'.kind = "set" =>
          /\ pr'.exc = ""
          /\ IF pr'.ok
             THEN SlotWritten(heap, pr'.parts) \notin SlotsRead(heap, Root, Front(pr'.parts))
                  => get(heap', Root, Listed(pr'.parts), Default) = Ok(pr'.val[1])
             ELSE heap' = heap
      ]_vars

\* a set through two segments succeeded and get finds the value there
C40_Witness ==
    /\ pr.kind = "set"
    /\ pr.ok
    /\ Len(pr.parts) = 2
    /\ get(heap, Root, Listed(pr.parts), Default) = Ok(pr.val[1])

====
